---- MODULE Spec2Model ----
(***************************************************************************)
(* Verification model of the Cigna policy scraper back end:                *)
(*   - ProgressTracker        (src/backend/progress_tracker.py)            *)
(*   - ResourceMonitor        (src/backend/resource_monitor.py)            *)
(*   - resource_aware_task    (src/backend/smart_celery_config.py)         *)
(*   - CignaPolicyScraper: run, scrape_policy_url, save_policy,            *)
(*     save_related_data      (src/scraper.py)                             *)
(*   - clear_data             (src/backend/app.py)                         *)
(*   - DataValidator          (src/backend/scraper/validators.py)          *)
(* Each component has its own specifications over the shared variable      *)
(* tuple `vars`: SpecTracker, SpecTrackerRun, SpecTrackerPair;             *)
(* SpecMonitor, SpecWorker; SpecStore, SpecStoreClear, SpecScraper;        *)
(* SpecValidator.  A specification leaves the other components' variables *)
(* at their initial values.                                                *)
(***************************************************************************)
EXTENDS Integers, Sequences, FiniteSets, TLC

VARIABLES
    \* ---- ProgressTracker ----
    active_tasks,     \* self.active_tasks: dict task id -> ProgressUpdate
    redis,            \* the progress store: key progress:<task id> -> saved record
    tcall,            \* the last tracker call and what it returned
    tnow,             \* time.time() as the tracker reads it, in seconds
    other_tasks,      \* active_tasks of the ProgressTracker of another worker process
    \* ---- ResourceMonitor ----
    now,                          \* time.time(), in seconds
    circuit_breaker_active,       \* self.circuit_breaker_active
    circuit_breaker_start_time,   \* self.circuit_breaker_start_time (NoTime when None)
    mcall,                        \* the last should_throttle_processing call
    seenHighAt,                   \* time of the latest call whose sample had CPU and memory high
    trippedAt,                    \* time of the latest activation of the breaker
    upc,                          \* position of a worker inside resource_aware_task's wrapper
    thr,                          \* thread -> position and locals of its should_throttle_processing call
    \* ---- record store and save_policy workers ----
    policy_updates,        \* table policy_updates: set of rows
    medical_codes,         \* table medical_codes: set of rows
    referenced_documents,  \* table referenced_documents: set of rows
    document_changes,      \* table document_changes: set of rows
    nextId,                \* next row id the store hands out
    wpc,                   \* worker -> position inside save_policy
    wdata,                 \* worker -> the policy_data it is saving
    wid,                   \* worker -> policy_id returned by its insert
    wret,                  \* worker -> return value of its last save_policy
    cpc,                   \* position of the clear_data request handler
    scr,                   \* CignaPolicyScraper.run: its position and local variables
    \* ---- DataValidator ----
    vpc,            \* position of the validation driver
    candidate,      \* the record handed to validate_policy_data
    vresult,        \* validate_policy_data(candidate)
    vresult2,       \* validate_policy_data(vresult.validated_data)
    \* ---- field recognizer and other pure functions ----
    fpc,            \* position of the driver that calls one function
    fargs,          \* the arguments of the call
    fret            \* what the call returned

trackerVars == <<active_tasks, redis, tcall, tnow, other_tasks>>
monitorVars == <<now, circuit_breaker_active, circuit_breaker_start_time,
                 mcall, seenHighAt, trippedAt, upc, thr>>
storeVars == <<policy_updates, medical_codes, referenced_documents,
               document_changes, nextId, wpc, wdata, wid, wret, cpc, scr>>
validatorVars == <<vpc, candidate, vresult, vresult2, fpc, fargs, fret>>
vars == <<trackerVars, monitorVars, storeVars, validatorVars>>

\* Python's None for a string-valued field, and for a time or id field.
None == "None"
NoTime == -1

(***************************************************************************)
(* ProgressTracker                                                         *)
(***************************************************************************)

\* Bound on the item counts (total_items, items_processed) passed by callers.
MaxItems == 2

\* Bound on the tracker's clock, in clock steps.
MaxTicks == 3

Tasks == {"t1", "t2"}

\* SpecTracker drives one task with every argument; SpecTrackerPair drives
\* both tasks with the default arguments.
SingleTask == {"t1"}
Statuses == {"started", "processing", "completed", "failed"}
Terminal == {"completed", "failed"}
ItemLabels == {"item"}
ErrorMessages == {None, "boom"}

\* The status arguments the callers of update_progress pass: the default and
\* one terminal status.
UpdateStatuses == {"processing", "failed"}

\* The expiry _save_progress gives every stored record, in seconds.
ProgressTTLDoubled == 2 * 3600
ProgressTTL == 3600

\* Seconds in one hour, as cleanup_old_tasks multiplies max_age_hours.
SecondsPerHour == 3600

\* One step of the tracker's clock: half the expiry.
TickLen == ProgressTTL \div 2

\* The max_age_hours arguments passed to cleanup_old_tasks.
MaxAgeHours == {0, 1}

\* ProgressTracker.__init__: no task is tracked, nothing is stored.
\* A dict with key k set to v.
DictSet(d, k, v) ==
    [x \in (DOMAIN d) \cup {k} |-> IF x = k THEN v ELSE d[x]]

\* A dict without the keys in ks.
DictDel(d, ks) == [x \in (DOMAIN d) \ ks |-> d[x]]

EmptyDict == [x \in {} |-> None]

\* estimated_completion: None, or the time num / den.
NoEstimate == [set |-> FALSE, num |-> 0, den |-> 1]

\* The record slot of a call that returned None.
NoProgress ==
    [status |-> None, current_step |-> 0, total_steps |-> 0,
     current_item |-> None, items_processed |-> 0, items_total |-> 0,
     start_time |-> NoTime, estimated_completion |-> NoEstimate,
     error_message |-> None]

\* The record of a tracker call: the operation, its arguments, whether the
\* task was tracked, whether the call raised, and the record it returned.
Call(op, task_id, found, raised, success, items_processed, ret) ==
    [op |-> op, task |-> task_id, found |-> found, raised |-> raised,
     success |-> success, n |-> items_processed, at |-> tnow, ret |-> ret,
     stored |-> task_id \in DOMAIN redis]

TrackerInit ==
    /\ active_tasks = EmptyDict
    /\ redis = EmptyDict
    /\ tnow = 0
    /\ tcall = Call("none", None, FALSE, FALSE, FALSE, 0, NoProgress)
    /\ other_tasks = EmptyDict

\* json.dumps(asdict(progress)): None becomes null.
JsonNull == "null"
Dumps(progress) ==
    [progress EXCEPT !.error_message = IF @ = None THEN JsonNull ELSE @]

\* ProgressUpdate(**json.loads(data)): null becomes None.
Loads_KeepNull(data) == data

Loads(data) ==
    [data EXCEPT !.error_message = IF @ = JsonNull THEN None ELSE @]

\* _save_progress: setex(key, 3600, json.dumps(asdict(progress))).
SaveProgress(store, task_id, progress) ==
    DictSet(store, task_id,
            [data |-> Dumps(progress), expires_at |-> tnow + ProgressTTL])

\* The keys the store has dropped by time t: a key set with an expiry of
\* ttl seconds is gone once ttl seconds have passed.
ExpiredKeys(store, t) == {k \in DOMAIN store : store[k].expires_at <= t}

\* get_progress(task_id): the stored record, or None.
get_progress(task_id) ==
    IF task_id \in DOMAIN redis
    THEN [found |-> TRUE, ret |-> Loads(redis[task_id].data)]
    ELSE [found |-> FALSE, ret |-> NoProgress]

\* get_all_active_tasks(): the ids of the stored records whose status is
\* started or processing.
get_all_active_tasks ==
    {k \in DOMAIN redis : Loads(redis[k].data).status \in {"started", "processing"}}

\* start_task(task_id, total_items): a fresh record replaces whatever was
\* tracked under task_id, and is saved.
StartTaskRecord(total_items) ==
    [status |-> "started",
     current_step |-> 0,
     total_steps |-> total_items,
     current_item |-> "Initializing...",
     items_processed |-> 0,
     items_total |-> total_items,
     start_time |-> tnow,
     estimated_completion |-> NoEstimate,
     error_message |-> None]

start_task(task_id, total_items) ==
    LET progress == StartTaskRecord(total_items) IN
    /\ active_tasks' = DictSet(active_tasks, task_id, progress)
    /\ redis' = SaveProgress(redis, task_id, progress)
    /\ tcall' = Call("start_task", task_id, TRUE, FALSE, FALSE, 0, progress)

\* A lookup that falls back to the record another tracker has stored.
Tracked_OrStored(task_id) ==
    IF task_id \in DOMAIN active_tasks
    THEN [found |-> TRUE, progress |-> active_tasks[task_id]]
    ELSE IF task_id \in DOMAIN redis
    THEN [found |-> TRUE, progress |-> Loads(redis[task_id].data)]
    ELSE [found |-> FALSE, progress |-> NoProgress]

\* if task_id not in self.active_tasks: return None; otherwise
\* progress = self.active_tasks[task_id]
Tracked(task_id) ==
    IF task_id \in DOMAIN active_tasks
    THEN [found |-> TRUE, progress |-> active_tasks[task_id]]
    ELSE [found |-> FALSE, progress |-> NoProgress]

\* update_progress's assignments to the tracked record.
UpdatedRecord(progress, current_item, items_processed, status) ==
    [progress EXCEPT !.status = status,
                     !.current_item = current_item,
                     !.items_processed = items_processed,
                     !.current_step = items_processed]

\* update_progress's estimate: time.time() + remaining_items / rate with
\* rate = items_processed / elapsed_time, as the fraction num / den.
EstimatedCompletion(progress, items_processed) ==
    LET elapsed_time == tnow - progress.start_time
        remaining_items == progress.items_total - items_processed
    IN [set |-> TRUE,
        num |-> tnow * items_processed + remaining_items * elapsed_time,
        den |-> items_processed]

\* The divisions of the estimate raise ZeroDivisionError: items_processed /
\* elapsed_time when no time has elapsed (remaining_items / rate cannot,
\* rate being non-zero once elapsed_time is).
EstimateRaises(progress, items_processed) ==
    items_processed > 0 /\ tnow - progress.start_time = 0

\* update_progress(task_id, current_item, items_processed, status)
update_progress(task_id, current_item, items_processed, status) ==
    IF ~Tracked(task_id).found
    THEN /\ tcall' = Call("update_progress", task_id, FALSE, FALSE, FALSE,
                          items_processed, NoProgress)
         /\ UNCHANGED <<active_tasks, redis>>
    ELSE LET assigned == UpdatedRecord(Tracked(task_id).progress, current_item,
                                       items_processed, status)
             progress == IF items_processed > 0
                         THEN [assigned EXCEPT !.estimated_completion =
                                  EstimatedCompletion(assigned, items_processed)]
                         ELSE assigned
         IN IF EstimateRaises(assigned, items_processed)
            THEN \* the tracked record is already assigned; nothing is saved
                 /\ active_tasks' = DictSet(active_tasks, task_id, assigned)
                 /\ tcall' = Call("update_progress", task_id, TRUE, TRUE, FALSE,
                                  items_processed, NoProgress)
                 /\ UNCHANGED redis
            ELSE /\ active_tasks' = DictSet(active_tasks, task_id, progress)
                 /\ redis' = SaveProgress(redis, task_id, progress)
                 /\ tcall' = Call("update_progress", task_id, TRUE, FALSE, FALSE,
                                  items_processed, progress)

\* complete_task's assignments to the tracked record.
CompletedRecord_KeepCount(progress, success, error_message) ==
    [progress EXCEPT
        !.status = IF success THEN "completed" ELSE "failed",
        !.current_item = IF success THEN "Completed" ELSE "Failed",
        !.error_message = IF error_message # None THEN error_message
                          ELSE progress.error_message]

CompletedRecord(progress, success, error_message) ==
    [progress EXCEPT
        !.status = IF success THEN "completed" ELSE "failed",
        !.current_item = IF success THEN "Completed" ELSE "Failed",
        !.items_processed = IF success THEN progress.items_total
                            ELSE progress.items_processed,
        !.current_step = IF success THEN progress.items_total
                         ELSE progress.current_step,
        !.error_message = IF error_message # None THEN error_message
                          ELSE progress.error_message]

\* complete_task that drops the finished task from active_tasks.
complete_task_Forgets(task_id, success, error_message) ==
    IF ~Tracked(task_id).found
    THEN /\ tcall' = Call("complete_task", task_id, FALSE, FALSE, success, 0,
                          NoProgress)
         /\ UNCHANGED <<active_tasks, redis>>
    ELSE LET progress == CompletedRecord(Tracked(task_id).progress, success,
                                         error_message) IN
         /\ active_tasks' = DictDel(active_tasks, {task_id})
         /\ redis' = SaveProgress(redis, task_id, progress)
         /\ tcall' = Call("complete_task", task_id, TRUE, FALSE, success, 0,
                          progress)

\* complete_task(task_id, success, error_message)
complete_task(task_id, success, error_message) ==
    IF ~Tracked(task_id).found
    THEN /\ tcall' = Call("complete_task", task_id, FALSE, FALSE, success, 0,
                          NoProgress)
         /\ UNCHANGED <<active_tasks, redis>>
    ELSE LET progress == CompletedRecord(Tracked(task_id).progress, success,
                                         error_message) IN
         /\ active_tasks' = DictSet(active_tasks, task_id, progress)
         /\ redis' = SaveProgress(redis, task_id, progress)
         /\ tcall' = Call("complete_task", task_id, TRUE, FALSE, success, 0,
                          progress)

\* The records cleanup_old_tasks deletes: those started more than
\* max_age_hours hours before the current time.
TooOld_AtCutoff(store, max_age_hours) ==
    {k \in DOMAIN store :
        tnow - Loads(store[k].data).start_time >= max_age_hours * SecondsPerHour}

TooOld(store, max_age_hours) ==
    {k \in DOMAIN store :
        tnow - Loads(store[k].data).start_time > max_age_hours * SecondsPerHour}

\* cleanup_old_tasks(max_age_hours)
cleanup_old_tasks(max_age_hours) ==
    /\ redis' = DictDel(redis, TooOld(redis, max_age_hours))
    /\ tcall' = Call("cleanup_old_tasks", None, FALSE, FALSE, FALSE,
                     max_age_hours, NoProgress)
    /\ UNCHANGED active_tasks

StartTask ==
    /\ \E t \in SingleTask, n \in 0..MaxItems : start_task(t, n)
    /\ UNCHANGED <<tnow, other_tasks, monitorVars, storeVars, validatorVars>>

UpdateProgress ==
    /\ \E t \in SingleTask, c \in ItemLabels, n \in 0..(MaxItems + 1),
          s \in UpdateStatuses :
          update_progress(t, c, n, s)
    /\ UNCHANGED <<tnow, other_tasks, monitorVars, storeVars, validatorVars>>

CompleteTask ==
    /\ \E t \in SingleTask, ok \in BOOLEAN, e \in ErrorMessages :
          complete_task(t, ok, e)
    /\ UNCHANGED <<tnow, other_tasks, monitorVars, storeVars, validatorVars>>

CleanupOldTasks ==
    /\ \E h \in MaxAgeHours : cleanup_old_tasks(h)
    /\ UNCHANGED <<tnow, other_tasks, monitorVars, storeVars, validatorVars>>

\* The same calls on two tasks, with the default status and no error message.
PairStart ==
    /\ \E t \in Tasks : start_task(t, MaxItems)
    /\ UNCHANGED <<tnow, other_tasks, monitorVars, storeVars, validatorVars>>

PairUpdate ==
    /\ \E t \in Tasks : update_progress(t, "item", 1, "processing")
    /\ UNCHANGED <<tnow, other_tasks, monitorVars, storeVars, validatorVars>>

PairComplete ==
    /\ \E t \in Tasks : complete_task(t, TRUE, None)
    /\ UNCHANGED <<tnow, other_tasks, monitorVars, storeVars, validatorVars>>

\* One run of a task: started once, updated with the default status and
\* increasing items_processed, and ended by at most one complete_task.
RunStart ==
    /\ \E t \in SingleTask \ DOMAIN active_tasks, n \in 0..MaxItems : start_task(t, n)
    /\ UNCHANGED <<tnow, other_tasks, monitorVars, storeVars, validatorVars>>

RunUpdate ==
    /\ \E t \in DOMAIN active_tasks, n \in 0..(MaxItems + 1) :
          /\ active_tasks[t].status \notin Terminal
          /\ n > active_tasks[t].items_processed
          /\ update_progress(t, "item", n, "processing")
    /\ UNCHANGED <<tnow, other_tasks, monitorVars, storeVars, validatorVars>>

RunComplete ==
    /\ \E t \in DOMAIN active_tasks, ok \in BOOLEAN :
          /\ active_tasks[t].status \notin Terminal
          /\ complete_task(t, ok, IF ok THEN None ELSE "boom")
    /\ UNCHANGED <<tnow, other_tasks, monitorVars, storeVars, validatorVars>>

\* The ProgressTracker of another worker process: every process that imports
\* the module builds its own instance, with its own active_tasks, and the
\* instances share only the store.  Its start_task and update_progress.
OtherStartTask ==
    /\ \E t \in SingleTask :
          LET progress == StartTaskRecord(MaxItems) IN
          /\ other_tasks' = DictSet(other_tasks, t, progress)
          /\ redis' = SaveProgress(redis, t, progress)
    /\ UNCHANGED <<active_tasks, tcall, tnow, monitorVars, storeVars, validatorVars>>

OtherUpdateProgress ==
    /\ \E t \in DOMAIN other_tasks :
          LET assigned == UpdatedRecord(other_tasks[t], "item", 1, "processing")
              progress == [assigned EXCEPT !.estimated_completion =
                              EstimatedCompletion(assigned, 1)]
          IN IF EstimateRaises(assigned, 1)
             THEN /\ other_tasks' = DictSet(other_tasks, t, assigned)
                  /\ UNCHANGED redis
             ELSE /\ other_tasks' = DictSet(other_tasks, t, progress)
                  /\ redis' = SaveProgress(redis, t, progress)
    /\ UNCHANGED <<active_tasks, tcall, tnow, monitorVars, storeVars, validatorVars>>

\* Time passes: the clock advances and the store drops the keys whose
\* expiry has been reached.
TrackerTick ==
    /\ tnow + TickLen <= MaxTicks * TickLen
    /\ tnow' = tnow + TickLen
    /\ redis' = DictDel(redis, ExpiredKeys(redis, tnow'))
    /\ UNCHANGED <<active_tasks, tcall, other_tasks, monitorVars, storeVars,
                   validatorVars>>

(***************************************************************************)
(* ResourceMonitor                                                         *)
(***************************************************************************)

\* Bound on the modelled time, in seconds.
MaxTime == 130

\* monitor_resources_continuously sleeps 10 seconds between two checks; the
\* model's clock advances in these steps.
TickSeconds == 10

cpu_threshold == 70
memory_threshold == 80
frontend_response_threshold == 2
circuit_breaker_duration == 60

\* get_system_metrics(): {} when psutil fails, otherwise a sample.  The
\* sampled values sit at and just above the thresholds.
CpuValues == {cpu_threshold, cpu_threshold + 1}
MemValues == {memory_threshold, memory_threshold + 1}
NoMetrics == [available |-> FALSE, cpu_percent |-> 0, memory_percent |-> 0]
MetricsSamples ==
    {NoMetrics} \cup
    [available : {TRUE}, cpu_percent : CpuValues, memory_percent : MemValues]

\* Outcomes of requests.get('http://localhost:8000/api/health', timeout=5):
\* an exception, or a status code and a measured response time in seconds.
ProbeNotRun == [raised |-> FALSE, status_code |-> 0, response_time |-> 0]
ProbeOutcomes ==
    {[raised |-> TRUE, status_code |-> 0, response_time |-> 0]} \cup
    [raised : {FALSE}, status_code : {200}, response_time : {1, 2, 3}] \cup
    [raised : {FALSE}, status_code : {500}, response_time : {1}]

\* check_frontend_responsiveness()
check_frontend_responsiveness(probe) ==
    IF probe.raised THEN FALSE
    ELSE probe.status_code = 200
         /\ probe.response_time < frontend_response_threshold

\* The CPU test with >= in place of >.
cpu_high_AtThreshold(metrics) == metrics.cpu_percent >= cpu_threshold

cpu_high(metrics) == metrics.cpu_percent > cpu_threshold
memory_high_AtThreshold(metrics) == metrics.memory_percent >= memory_threshold
memory_high(metrics) == metrics.memory_percent > memory_threshold

\* The cooldown test with >= in place of >.
CooldownExpired_AtDuration(t, start) == t - start >= circuit_breaker_duration

\* The cooldown test of should_throttle_processing (line 75).
CooldownExpired(t, start) == t - start > circuit_breaker_duration

\* The throttle decision from a fresh sample (lines 83-97).
ThrottleFromSample(metrics, probe) ==
    cpu_high(metrics) \/ memory_high(metrics)
        \/ ~check_frontend_responsiveness(probe)

\* The trip test with `or` in place of `and`.
TripCondition_Either(metrics) == cpu_high(metrics) \/ memory_high(metrics)

\* Whether the sample makes should_throttle_processing call
\* activate_circuit_breaker (line 92).
TripCondition(metrics) == cpu_high(metrics) /\ memory_high(metrics)

\* The two threads of the smart worker manager's process that call
\* should_throttle_processing on the one module-level resource_monitor:
\* the daemon thread of start_resource_monitoring (resource_monitor.py,
\* lines 180-185) running monitor_resources_continuously, and the main
\* thread in SmartWorkerManager.monitor_and_adjust.  No lock guards the
\* monitor, so a call is a sequence of steps, one per read or write of a
\* field of the monitor, and the steps of the two calls interleave.
Threads == {"monitor_resources_continuously", "monitor_and_adjust"}

\* The samples a threaded call meets: none, a normal one, or one with CPU
\* and memory both over their thresholds.
ThreadSamples ==
    {m \in MetricsSamples : ~m.available \/ (cpu_high(m) <=> memory_high(m))}

ThreadIdle == [pc |-> "idle", metrics |-> NoMetrics, ret |-> "None"]

MonitorInit ==
    /\ now = 0
    /\ circuit_breaker_active = FALSE
    /\ circuit_breaker_start_time = NoTime
    /\ mcall = [called |-> FALSE, at |-> 0, metrics |-> NoMetrics,
                probe |-> ProbeNotRun, probed |-> FALSE,
                active_before |-> FALSE, ret |-> FALSE,
                prevSeenHighAt |-> NoTime, prevTrippedAt |-> NoTime]
    /\ seenHighAt = NoTime
    /\ trippedAt = NoTime
    /\ upc = "idle"
    /\ thr = [t \in Threads |-> ThreadIdle]

\* should_throttle_processing() with the sample and the probe outcome the
\* environment produces for this call.  time.time() is `now` throughout the
\* call.  activate_circuit_breaker() is inlined at the place of its call.
should_throttle_processing(metrics, probe) ==
    LET inCooldown == circuit_breaker_active
                      /\ ~CooldownExpired(now, circuit_breaker_start_time)
        sawHigh == metrics.available /\ TripCondition(metrics)
        base == [called |-> TRUE, at |-> now, metrics |-> metrics,
                 probe |-> ProbeNotRun, probed |-> FALSE,
                 active_before |-> circuit_breaker_active, ret |-> TRUE,
                 prevSeenHighAt |-> seenHighAt, prevTrippedAt |-> trippedAt]
    IN
    /\ seenHighAt' = IF sawHigh THEN now ELSE seenHighAt
    /\ UNCHANGED now
    /\ IF ~metrics.available
       THEN \* line 70: err on the side of caution
            /\ mcall' = base
            /\ UNCHANGED <<circuit_breaker_active, circuit_breaker_start_time,
                           trippedAt>>
       ELSE IF inCooldown
       THEN \* line 80
            /\ mcall' = base
            /\ UNCHANGED <<circuit_breaker_active, circuit_breaker_start_time,
                           trippedAt>>
       ELSE \* breaker inactive, or its timeout was reached and it is reset
            LET trip == TripCondition(metrics)
                throttle == ThrottleFromSample(metrics, probe)
            IN
            /\ mcall' = [base EXCEPT !.probe = probe, !.probed = TRUE,
                                     !.ret = throttle]
            /\ circuit_breaker_active' = (throttle /\ trip)
            /\ circuit_breaker_start_time' =
                   IF throttle /\ trip THEN now ELSE NoTime
            /\ trippedAt' = IF throttle /\ trip THEN now ELSE trippedAt

ShouldThrottle ==
    /\ \E metrics \in MetricsSamples, probe \in ProbeOutcomes :
          should_throttle_processing(metrics, probe)
    /\ UNCHANGED <<upc, thr>>
    /\ UNCHANGED <<trackerVars, storeVars, validatorVars>>

\* Time passes between two calls.
MonitorTick ==
    /\ now + TickSeconds <= MaxTime
    /\ now' = now + TickSeconds
    /\ UNCHANGED <<circuit_breaker_active, circuit_breaker_start_time,
                   mcall, seenHighAt, trippedAt, upc, thr>>
    /\ UNCHANGED <<trackerVars, storeVars, validatorVars>>

\* resource_aware_task (smart_celery_config.py): the wrapper around a unit
\* of work.  It asks the monitor, sleeps when told to throttle, and then
\* calls the wrapped function.
BackoffSeconds == 2

\* The samples and probe outcomes a worker's checks meet: a normal sample
\* or one with CPU and memory both over their thresholds, and a healthy
\* front end.
WorkerSamples ==
    {m \in MetricsSamples : m.available /\ (cpu_high(m) <=> memory_high(m))}
WorkerProbes ==
    {p \in ProbeOutcomes : check_frontend_responsiveness(p)}

\* wrapper, line 82: if resource_monitor.should_throttle_processing()
WrapperCheck ==
    /\ upc = "idle"
    /\ \E metrics \in WorkerSamples, probe \in WorkerProbes :
          should_throttle_processing(metrics, probe)
    /\ upc' = IF mcall'.ret THEN "sleeping" ELSE "running"
    /\ UNCHANGED thr
    /\ UNCHANGED <<trackerVars, storeVars, validatorVars>>

\* wrapper, lines 85-87: time.sleep(2), then return func(*args, **kwargs)
WrapperSleep ==
    /\ upc = "sleeping"
    /\ now + BackoffSeconds <= MaxTime
    /\ now' = now + BackoffSeconds
    /\ upc' = "running"
    /\ UNCHANGED <<circuit_breaker_active, circuit_breaker_start_time,
                   mcall, seenHighAt, trippedAt, thr>>
    /\ UNCHANGED <<trackerVars, storeVars, validatorVars>>

\* The wrapped function returns.
WrapperReturn ==
    /\ upc = "running"
    /\ upc' = "idle"
    /\ UNCHANGED <<now, circuit_breaker_active, circuit_breaker_start_time,
                   mcall, seenHighAt, trippedAt, thr>>
    /\ UNCHANGED <<trackerVars, storeVars, validatorVars>>

\* The call returns: its locals are gone.
ThreadReturns(t, value) ==
    thr' = [thr EXCEPT ![t] = [ThreadIdle EXCEPT !.ret = value]]

ThreadGoes(t, pc) == thr' = [thr EXCEPT ![t].pc = pc]

BreakerUntouched ==
    UNCHANGED <<now, circuit_breaker_active, circuit_breaker_start_time,
                mcall, seenHighAt, trippedAt, upc>>

\* lines 68-71: metrics = self.get_system_metrics(); if not metrics:
\* return True
ThreadSample(t) ==
    /\ thr[t].pc = "idle"
    /\ \E metrics \in ThreadSamples :
          IF ~metrics.available
          THEN ThreadReturns(t, "True")
          ELSE thr' = [thr EXCEPT ![t] = [pc |-> "read_active",
                                          metrics |-> metrics,
                                          ret |-> "None"]]
    /\ BreakerUntouched

\* line 74: if self.circuit_breaker_active:
ThreadReadActive(t) ==
    /\ thr[t].pc = "read_active"
    /\ ThreadGoes(t, IF circuit_breaker_active THEN "elapsed"
                     ELSE "thresholds")
    /\ BreakerUntouched

\* line 75: time.time() - self.circuit_breaker_start_time, which raises
\* TypeError when the start time is None; line 80: return True while the
\* cooldown lasts.
ThreadElapsed(t) ==
    /\ thr[t].pc = "elapsed"
    /\ IF circuit_breaker_start_time = NoTime
       THEN ThreadGoes(t, "TypeError")
       ELSE IF CooldownExpired(now, circuit_breaker_start_time)
       THEN ThreadGoes(t, "reset_active")
       ELSE ThreadReturns(t, "True")
    /\ BreakerUntouched

\* line 77: self.circuit_breaker_active = False
ThreadResetActive(t) ==
    /\ thr[t].pc = "reset_active"
    /\ circuit_breaker_active' = FALSE
    /\ ThreadGoes(t, "reset_start")
    /\ UNCHANGED <<now, circuit_breaker_start_time, mcall, seenHighAt,
                   trippedAt, upc>>

\* line 78: self.circuit_breaker_start_time = None
ThreadResetStart(t) ==
    /\ thr[t].pc = "reset_start"
    /\ circuit_breaker_start_time' = NoTime
    /\ ThreadGoes(t, "thresholds")
    /\ UNCHANGED <<now, circuit_breaker_active, mcall, seenHighAt,
                   trippedAt, upc>>

\* lines 83-97: the thresholds and the health probe; the call goes on to
\* activate_circuit_breaker when CPU and memory are both high.
ThreadThresholds(t) ==
    /\ thr[t].pc = "thresholds"
    /\ \E probe \in ProbeOutcomes :
          IF ~ThrottleFromSample(thr[t].metrics, probe)
          THEN ThreadReturns(t, "False")
          ELSE IF TripCondition(thr[t].metrics)
          THEN ThreadGoes(t, "activate")
          ELSE ThreadReturns(t, "True")
    /\ BreakerUntouched

\* activate_circuit_breaker, line 101: if not self.circuit_breaker_active:
ThreadActivate(t) ==
    /\ thr[t].pc = "activate"
    /\ IF circuit_breaker_active THEN ThreadReturns(t, "True")
       ELSE ThreadGoes(t, "set_active")
    /\ BreakerUntouched

\* line 103: self.circuit_breaker_active = True
ThreadSetActive(t) ==
    /\ thr[t].pc = "set_active"
    /\ circuit_breaker_active' = TRUE
    /\ ThreadGoes(t, "set_start")
    /\ UNCHANGED <<now, circuit_breaker_start_time, mcall, seenHighAt,
                   trippedAt, upc>>

\* line 104: self.circuit_breaker_start_time = time.time(); the call
\* returns True (line 95).
ThreadSetStart(t) ==
    /\ thr[t].pc = "set_start"
    /\ circuit_breaker_start_time' = now
    /\ ThreadReturns(t, "True")
    /\ UNCHANGED <<now, circuit_breaker_active, mcall, seenHighAt,
                   trippedAt, upc>>

\* `except Exception` of the caller's loop (resource_monitor.py line 171,
\* start_smart_workers.py line 106): the error is logged and the loop goes
\* on to its next call.
ThreadCatches(t) ==
    /\ thr[t].pc = "TypeError"
    /\ ThreadReturns(t, "raised")
    /\ BreakerUntouched

\* One step of one of the two threads.
ThreadSteps ==
    \E t \in Threads :
       \/ ThreadSample(t)
       \/ ThreadReadActive(t)
       \/ ThreadElapsed(t)
       \/ ThreadResetActive(t)
       \/ ThreadResetStart(t)
       \/ ThreadThresholds(t)
       \/ ThreadActivate(t)
       \/ ThreadSetActive(t)
       \/ ThreadSetStart(t)
       \/ ThreadCatches(t)

\* The two threads on the shared monitor, and the clock.
ThreadsNext ==
    \/ ThreadSteps /\ UNCHANGED <<trackerVars, storeVars, validatorVars>>
    \/ MonitorTick

(***************************************************************************)
(* DataValidator                                                           *)
(* A string is a sequence of characters.  "LF" is the newline character    *)
(* (whitespace, and in the control range \x00-\x1f), "NUL" is \x00 (a       *)
(* control character that is not whitespace).  A dict field is a record    *)
(* [present, s]: present = FALSE is a missing key (data.get gives None).   *)
(***************************************************************************)

\* Bounds on the lengths of the enumerated titles and body texts.
MaxTitleLen == 5
MaxBodyLen == 5

Absent == [present |-> FALSE, s |-> <<>>]
Str(s) == [present |-> TRUE, s |-> s]

\* All strings over an alphabet up to a length.
SeqsUpTo(alphabet, n) == UNION {[1..k -> alphabet] : k \in 0..n}

IsSpace(c) == c \in {" ", "LF"}
IsControl(c) == c \in {"NUL", "LF"}
IsDigit(c) == c \in {"0", "1", "2", "3", "4", "5", "6", "7", "8", "9"}
IsUpperAZ(c) == c \in {"A", "B", "J", "Z"}
IsAlpha(c) == c \in {"a", "b", "h", "A", "B", "J", "Z"}

\* str.upper() on one character.
UpperChar(c) ==
    CASE c = "a" -> "A"
      [] c = "b" -> "B"
      [] c = "h" -> "H"
      [] OTHER -> c

RECURSIVE LStrip(_)
LStrip(s) ==
    IF s = <<>> THEN s
    ELSE IF IsSpace(Head(s)) THEN LStrip(Tail(s)) ELSE s

RECURSIVE RStrip(_)
RStrip(s) ==
    IF s = <<>> THEN s
    ELSE IF IsSpace(s[Len(s)]) THEN RStrip(SubSeq(s, 1, Len(s) - 1)) ELSE s

\* str.strip()
Strip(s) == RStrip(LStrip(s))

\* str.upper()
Upper(s) == [i \in 1..Len(s) |-> UpperChar(s[i])]

\* re.sub(r'\s+', ' ', text)
RECURSIVE CollapseWhitespace(_)
CollapseWhitespace(s) ==
    IF s = <<>> THEN s
    ELSE IF IsSpace(Head(s))
         THEN <<" ">> \o CollapseWhitespace(LStrip(s))
         ELSE <<Head(s)>> \o CollapseWhitespace(Tail(s))

\* re.sub(r'[\x00-\x1f\x7f-\x9f]', '', text)
RemoveControl(s) == SelectSeq(s, LAMBDA c : ~IsControl(c))

\* _clean_text: collapse whitespace, then remove control characters, then strip.
clean_text(text) == Strip(RemoveControl(CollapseWhitespace(text)))

\* The position of the first occurrence of character c in s, 0 when absent
\* (str.find(c) + 1).
RECURSIVE FindFrom(_, _, _)
FindFrom(s, c, i) ==
    IF i > Len(s) THEN 0
    ELSE IF s[i] = c THEN i ELSE FindFrom(s, c, i + 1)

\* urlparse(url).scheme: the text before the first ':' when it starts with a
\* letter and holds only scheme characters.
UrlScheme(url) ==
    LET i == FindFrom(url, ":", 1) IN
    IF i > 1 /\ IsAlpha(url[1])
         /\ \A k \in 1..(i - 1) : IsAlpha(url[k]) \/ IsDigit(url[k])
    THEN SubSeq(url, 1, i - 1)
    ELSE <<>>

\* What urlparse leaves after the scheme and its ':'.
UrlAfterScheme(url) ==
    IF UrlScheme(url) = <<>> THEN url
    ELSE SubSeq(url, Len(UrlScheme(url)) + 2, Len(url))

\* urlparse(url).netloc: after a leading '//', the text up to the next '/'.
UrlNetloc(url) ==
    LET rest == UrlAfterScheme(url) IN
    IF Len(rest) >= 2 /\ rest[1] = "/" /\ rest[2] = "/"
    THEN LET body == SubSeq(rest, 3, Len(rest))
             j == FindFrom(body, "/", 1)
         IN IF j = 0 THEN body ELSE SubSeq(body, 1, j - 1)
    ELSE <<>>

\* _is_valid_url: all([result.scheme, result.netloc])
is_valid_url(url) == UrlScheme(url) # <<>> /\ UrlNetloc(url) # <<>>

\* data.get(field) is truthy: the key is there and the string is not empty.
Truthy(f) == f.present /\ f.s # <<>>

\* cpt_pattern ^\d{5}$
cpt_match(c) == Len(c) = 5 /\ \A i \in 1..5 : IsDigit(c[i])
\* hcpcs_pattern ^[A-Z]\d{4}$
hcpcs_match(c) ==
    Len(c) = 5 /\ IsUpperAZ(c[1]) /\ \A i \in 2..5 : IsDigit(c[i])
\* icd10_pattern ^[A-Z]\d{2}\.?\d{0,2}$  (re.match anchors at the start, $ at the end)
icd10_match(c) ==
    /\ Len(c) >= 3
    /\ IsUpperAZ(c[1]) /\ IsDigit(c[2]) /\ IsDigit(c[3])
    /\ LET rest == SubSeq(c, 4, Len(c))
           digits == IF rest # <<>> /\ Head(rest) = "." THEN Tail(rest) ELSE rest
       IN Len(digits) <= 2 /\ \A i \in 1..Len(digits) : IsDigit(digits[i])

\* _validate_required_fields: the errors it appends.
RequiredFieldErrors(data) ==
    (IF ~Truthy(data.title) THEN <<"Missing required field: title">> ELSE <<>>)
    \o (IF ~Truthy(data.url) THEN <<"Missing required field: url">> ELSE <<>>)

\* _validate_required_fields: whether it leaves result['is_valid'] alone.
RequiredFieldsValid(data) == Truthy(data.title) /\ Truthy(data.url)

\* _validate_field_formats: the error it appends.
FormatErrors(data) ==
    IF Truthy(data.url) /\ ~is_valid_url(data.url.s)
    THEN <<"Invalid URL format">> ELSE <<>>

\* The format check with the title's lower length bound treated as an error.
FieldFormatsValid_ShortTitleError(data) ==
    /\ ~(Truthy(data.url) /\ ~is_valid_url(data.url.s))
    /\ ~(Truthy(data.title) /\ Len(data.title.s) < 5)

\* _validate_field_formats: whether it leaves result['is_valid'] alone (only
\* the URL check assigns it; the length checks append warnings).
FieldFormatsValid(data) == ~(Truthy(data.url) /\ ~is_valid_url(data.url.s))

\* _validate_field_formats: the warning for the title's length.
TitleWarnings(data) ==
    IF ~Truthy(data.title) THEN <<>>
    ELSE IF Len(data.title.s) < 5 THEN <<"Title seems too short">>
    ELSE IF Len(data.title.s) > 500 THEN <<"Title seems too long">>
    ELSE <<>>

\* _validate_field_formats: the warning for the body's length.
BodyWarnings(data) ==
    IF ~Truthy(data.body_content) THEN <<>>
    ELSE IF Len(data.body_content.s) < 50 THEN <<"Body content seems too short">>
    ELSE IF Len(data.body_content.s) > 50000 THEN <<"Body content seems too long">>
    ELSE <<>>

\* _validate_medical_codes: the warning for one code, if any.
CodeWarning(code) ==
    IF code.code = <<>> THEN <<"Medical code has empty code value">>
    ELSE IF code.type = "CPT" /\ ~cpt_match(code.code)
         THEN <<"Invalid CPT code format">>
    ELSE IF code.type = "HCPCS" /\ ~hcpcs_match(code.code)
         THEN <<"Invalid HCPCS code format">>
    ELSE IF code.type = "ICD10" /\ ~icd10_match(code.code)
         THEN <<"Invalid ICD-10 code format">>
    ELSE <<>>

RECURSIVE CodeWarnings(_)
CodeWarnings(codes) ==
    IF codes = <<>> THEN <<>>
    ELSE CodeWarning(Head(codes)) \o CodeWarnings(Tail(codes))

\* _validate_referenced_documents: the warnings for one document.
DocWarning(doc) ==
    (IF doc.url # <<>> /\ ~is_valid_url(doc.url)
     THEN <<"Invalid document URL">> ELSE <<>>)
    \o (IF doc.title = <<>> THEN <<"Document has no title">> ELSE <<>>)

RECURSIVE DocWarnings(_)
DocWarnings(docs) ==
    IF docs = <<>> THEN <<>>
    ELSE DocWarning(Head(docs)) \o DocWarnings(Tail(docs))

\* _clean_data on a stripped field (title, category): only a present,
\* non-empty string is replaced.
StripField(f) == IF Truthy(f) THEN Str(Strip(f.s)) ELSE f

\* _clean_data on body_content.
CleanBody(f) == IF Truthy(f) THEN Str(clean_text(f.s)) ELSE f

\* _clean_data
clean_data(data) ==
    [title |-> StripField(data.title),
     url |-> data.url,
     category |-> StripField(data.category),
     body_content |-> CleanBody(data.body_content),
     medical_codes |->
        [i \in 1..Len(data.medical_codes) |->
            [data.medical_codes[i] EXCEPT !.code = Upper(Strip(@)),
                                          !.description = Strip(@)]],
     referenced_documents |->
        [i \in 1..Len(data.referenced_documents) |->
            [data.referenced_documents[i] EXCEPT !.title = Strip(@),
                                                 !.url = Strip(@)]]]

\* validate_policy_data
validate_policy_data(policy_data) ==
    LET errors == RequiredFieldErrors(policy_data) \o FormatErrors(policy_data)
        warnings == TitleWarnings(policy_data) \o BodyWarnings(policy_data)
                    \o CodeWarnings(policy_data.medical_codes)
                    \o DocWarnings(policy_data.referenced_documents)
    IN [is_valid |-> RequiredFieldsValid(policy_data)
                     /\ FieldFormatsValid(policy_data),
        errors |-> errors,
        warnings |-> warnings,
        validated_data |-> clean_data(policy_data)]

\* Candidate records handed to the validator.
TitleChars == {"a", " "}
BodyChars == {"a", " ", "LF", "NUL"}

Chars(str) ==
    CASE str = "" -> <<>>
      [] str = "h" -> <<"h">>
      [] str = "h:h" -> <<"h", ":", "h">>
      [] str = "//h" -> <<"/", "/", "h">>
      [] str = "h://" -> <<"h", ":", "/", "/">>
      [] str = "h:/h" -> <<"h", ":", "/", "h">>
      [] str = "1://h" -> <<"1", ":", "/", "/", "h">>
      [] str = "h://h" -> <<"h", ":", "/", "/", "h">>
      [] str = "h://b/a" -> <<"h", ":", "/", "/", "b", "/", "a">>
      [] str = "12345" -> <<"1", "2", "3", "4", "5">>
      [] str = " 12345 " -> <<" ", "1", "2", "3", "4", "5", " ">>
      [] str = "1234" -> <<"1", "2", "3", "4">>
      [] str = "J1234" -> <<"J", "1", "2", "3", "4">>
      [] str = "a1234" -> <<"a", "1", "2", "3", "4">>
      [] str = "A12.3" -> <<"A", "1", "2", ".", "3">>
      [] str = "A12.345" -> <<"A", "1", "2", ".", "3", "4", "5">>
      [] str = " a " -> <<" ", "a", " ">>
      [] str = "abcde" -> <<"a", "b", "a", "b", "a">>

UrlSamples ==
    {Chars(u) : u \in {"", "h", "h:h", "//h", "h://", "h:/h", "1://h",
                       "h://h", "h://b/a"}}

GoodUrl == Chars("h://h")
GoodTitle == Chars("abcde")

CodeSamples ==
    {[code |-> Chars("12345"), type |-> "CPT", description |-> Chars(" a ")],
     [code |-> Chars(" 12345 "), type |-> "CPT", description |-> <<>>],
     [code |-> Chars("1234"), type |-> "CPT", description |-> <<>>],
     [code |-> Chars("J1234"), type |-> "HCPCS", description |-> <<>>],
     [code |-> Chars("a1234"), type |-> "HCPCS", description |-> <<>>],
     [code |-> Chars("A12.3"), type |-> "ICD10", description |-> <<>>],
     [code |-> Chars("A12.345"), type |-> "ICD10", description |-> <<>>],
     [code |-> <<>>, type |-> "CPT", description |-> <<>>]}

DocSamples ==
    {[title |-> Chars(" a "), url |-> Chars("h://h")],
     [title |-> Chars(" a "), url |-> Chars("h:h")],
     [title |-> <<>>, url |-> <<>>]}

CodeLists == {<<>>} \cup {<<c>> : c \in CodeSamples}
DocLists == {<<>>} \cup {<<d>> : d \in DocSamples}

\* Candidates that vary the required fields, with every title up to
\* MaxTitleLen.
RequiredFieldCandidates ==
    [title : {Absent} \cup {Str(t) : t \in SeqsUpTo(TitleChars, MaxTitleLen)},
     url : {Absent} \cup {Str(u) : u \in UrlSamples},
     category : {Absent},
     body_content : {Absent, Str(<<"a">>)},
     medical_codes : {<<>>},
     referenced_documents : {<<>>}]

\* Candidates that vary the codes and the documents.
ChildCandidates ==
    [title : {Absent, Str(GoodTitle)},
     url : {Str(GoodUrl)},
     category : {Absent},
     body_content : {Absent},
     medical_codes : CodeLists,
     referenced_documents : DocLists]

\* Candidates that vary the free text, with every body up to MaxBodyLen.
TextCandidates ==
    [title : {Str(GoodTitle), Str(Chars(" a "))},
     url : {Str(GoodUrl)},
     category : {Absent, Str(Chars(" a "))},
     body_content : {Absent} \cup {Str(b) : b \in SeqsUpTo(BodyChars, MaxBodyLen)},
     medical_codes : {<<>>},
     referenced_documents : {<<>>}]

Candidates == RequiredFieldCandidates \cup ChildCandidates \cup TextCandidates

NoCandidate ==
    [title |-> Absent, url |-> Absent, category |-> Absent,
     body_content |-> Absent, medical_codes |-> <<>>,
     referenced_documents |-> <<>>]

NoResult ==
    [is_valid |-> FALSE, errors |-> <<>>, warnings |-> <<>>,
     validated_data |-> NoCandidate]

\* No function call is being driven.
FunctionIdle ==
    /\ fpc = "idle"
    /\ fargs = <<>>
    /\ fret = <<>>

ValidatorIdle ==
    /\ vpc = "idle"
    /\ candidate = NoCandidate
    /\ vresult = NoResult
    /\ vresult2 = NoResult
    /\ FunctionIdle

\* A caller holds a candidate record.
ValidatorInit ==
    /\ vpc = "input"
    /\ candidate \in Candidates
    /\ vresult = NoResult
    /\ vresult2 = NoResult
    /\ FunctionIdle

\* result = validator.validate_policy_data(candidate)
Validate ==
    /\ vpc = "input"
    /\ vresult' = validate_policy_data(candidate)
    /\ vpc' = "validated"
    /\ UNCHANGED <<candidate, vresult2, fpc, fargs, fret>>
    /\ UNCHANGED <<trackerVars, monitorVars, storeVars>>

\* result2 = validator.validate_policy_data(result['validated_data'])
Revalidate ==
    /\ vpc = "validated"
    /\ vresult2' = validate_policy_data(vresult.validated_data)
    /\ vpc' = "revalidated"
    /\ UNCHANGED <<candidate, vresult, fpc, fargs, fret>>
    /\ UNCHANGED <<trackerVars, monitorVars, storeVars>>

ValidatorNext == Validate \/ Revalidate

(***************************************************************************)
(* The record store and CignaPolicyScraper.save_policy                     *)
(* Worker processes share nothing but the store; each store request        *)
(* (select, insert) is one step, and the requests of concurrent workers    *)
(* interleave.                                                             *)
(***************************************************************************)

\* Bound on the number of policy rows after which no new save_policy begins.
MaxRows == 2

Workers == {"w1", "w2"}

\* 'Unknown Policy', the title save_policy stores when the title is missing.
UnknownPolicyTitle == <<"Unknown Policy">>

\* The policy_data dicts the workers are given.  url is the policy's source
\* URL (key policy_url in save_policy, url in the validator).
PolicyData ==
    [P1 |-> [title |-> Str(GoodTitle), url |-> Str(GoodUrl),
             category |-> Absent, body_content |-> Absent,
             medical_codes |->
                <<[code |-> Chars("12345"), type |-> "CPT",
                   description |-> <<>>]>>,
             referenced_documents |->
                <<[title |-> Chars(" a "), url |-> Chars("h://h")]>>,
             document_changes |-> <<[change_description |-> <<"a">>]>>],
     P2 |-> [title |-> Absent, url |-> Str(GoodUrl),
             category |-> Absent, body_content |-> Absent,
             medical_codes |-> <<>>, referenced_documents |-> <<>>,
             document_changes |-> <<>>],
     P3 |-> [title |-> Str(Chars(" a ")), url |-> Str(Chars("h://b/a")),
             category |-> Absent, body_content |-> Absent,
             medical_codes |->
                <<[code |-> <<>>, type |-> "CPT", description |-> <<>>]>>,
             referenced_documents |-> <<>>,
             document_changes |-> <<>>],
     P4 |-> [title |-> Str(GoodTitle), url |-> Str(Chars("h:h")),
             category |-> Absent, body_content |-> Absent,
             medical_codes |-> <<>>, referenced_documents |-> <<>>,
             document_changes |-> <<>>]]

PolicyNames == DOMAIN PolicyData

\* The part of a policy_data dict the validator reads.
AsCandidate(d) ==
    [title |-> d.title, url |-> d.url, category |-> d.category,
     body_content |-> d.body_content, medical_codes |-> d.medical_codes,
     referenced_documents |-> d.referenced_documents]

\* policy_data.get(key) or default
OrDefault(f, default) == IF Truthy(f) THEN f.s ELSE default

\* The row save_policy prepares for table policy_updates (`data`); src names
\* the policy_data it was made from.
PolicyRow(id, name) ==
    [id |-> id,
     title |-> OrDefault(PolicyData[name].title, UnknownPolicyTitle),
     policy_url |-> OrDefault(PolicyData[name].url, <<>>),
     src |-> name]

\* select('id').eq('policy_url', url): the rows of the table with that URL.
SelectByUrl(table, url) == {r \in table : r.policy_url = url}

\* The children save_related_data inserts: only those whose code, title or
\* description is not empty.
CodesToSave(name) ==
    SelectSeq(PolicyData[name].medical_codes, LAMBDA c : c.code # <<>>)
DocsToSave(name) ==
    SelectSeq(PolicyData[name].referenced_documents, LAMBDA d : d.title # <<>>)
ChangesToSave(name) ==
    SelectSeq(PolicyData[name].document_changes,
              LAMBDA c : c.change_description # <<>>)

\* value is "True" or "False", save_policy's return value.
NoReturn == [value |-> "none", why |-> "none"]
Returned(value, why) == [value |-> value, why |-> why]

\* The result of the last scrape_policy_url call, with what happened in it.
NoScrape ==
    [found |-> 0, fetched |-> 0, failures |-> 0, duplicates |-> 0,
     ret |-> "none"]

\* The scraper before run() is called.
ScraperInit ==
    scr = [pc |-> "idle", months |-> 0, m |-> 0, found |-> 0, l |-> 0,
           policies_saved |-> 0, policies_scraped |-> 0,
           fetched |-> 0, failures |-> 0, duplicates |-> 0,
           calls |-> 0, failed_months |-> 0, slept |-> 0, last |-> NoScrape]

StoreInit ==
    /\ policy_updates = {}
    /\ medical_codes = {}
    /\ referenced_documents = {}
    /\ document_changes = {}
    /\ nextId = 1
    /\ wpc = [w \in Workers |-> "idle"]
    /\ wdata = [w \in Workers |-> "P1"]
    /\ wid = [w \in Workers |-> 0]
    /\ wret = [w \in Workers |-> NoReturn]
    /\ cpc = "idle"
    /\ ScraperInit

\* A worker calls save_policy(policy_data) with one of the named dicts.
SaveBeginOf(w, names) ==
    /\ wpc[w] = "idle"
    /\ Cardinality(policy_updates) < MaxRows
    /\ nextId <= MaxRows
    /\ \E name \in names : wdata' = [wdata EXCEPT ![w] = name]
    /\ wpc' = [wpc EXCEPT ![w] = "check"]
    /\ wid' = [wid EXCEPT ![w] = 0]
    /\ wret' = [wret EXCEPT ![w] = NoReturn]
    /\ UNCHANGED <<policy_updates, medical_codes, referenced_documents,
                   document_changes, nextId>>

SaveBegin(w) == SaveBeginOf(w, PolicyNames)

\* save_policy lines 909-914: the existence check; a policy that is already
\* there ends the call with False.
PolicyExists_Unchecked(table, name) == FALSE

PolicyExists(table, name) ==
    SelectByUrl(table, OrDefault(PolicyData[name].url, <<>>)) # {}

SaveCheck(w) ==
    /\ wpc[w] = "check"
    /\ \/ /\ PolicyExists(policy_updates, wdata[w])
          /\ wpc' = [wpc EXCEPT ![w] = "idle"]
          /\ wret' = [wret EXCEPT ![w] = Returned("False", "duplicate")]
       \/ /\ ~PolicyExists(policy_updates, wdata[w])
          /\ wpc' = [wpc EXCEPT ![w] = "insert"]
          /\ UNCHANGED wret
    /\ UNCHANGED <<policy_updates, medical_codes, referenced_documents,
                   document_changes, nextId, wdata, wid>>

\* save_policy lines 931-942: the insert succeeds and returns the new row.
\* The store puts no uniqueness constraint on policy_url.
SaveInsert(w) ==
    /\ wpc[w] = "insert"
    /\ policy_updates' = policy_updates \cup {PolicyRow(nextId, wdata[w])}
    /\ wid' = [wid EXCEPT ![w] = nextId]
    /\ nextId' = nextId + 1
    /\ wpc' = [wpc EXCEPT ![w] = "codes"]
    /\ UNCHANGED <<medical_codes, referenced_documents, document_changes,
                   wdata, wret>>

\* save_policy lines 940-946: the store rejects a request (the select or the
\* insert raises, or the insert returns no row); the call ends with False.
SaveRejected(w) ==
    /\ wpc[w] \in {"check", "insert"}
    /\ wpc' = [wpc EXCEPT ![w] = "idle"]
    /\ wret' = [wret EXCEPT ![w] = Returned("False", "rejected")]
    /\ UNCHANGED <<policy_updates, medical_codes, referenced_documents,
                   document_changes, nextId, wdata, wid>>

\* The rows one loop of save_related_data inserts for policy_id.
ChildRows(policy_id, children) ==
    {[policy_update_id |-> policy_id, n |-> i] : i \in 1..Len(children)}

\* policy_update_id REFERENCES policy_updates(id): the store accepts child
\* rows only for a policy row that exists.
ForeignKeyHolds_Unchecked(rows, parents) == TRUE

ForeignKeyHolds(rows, parents) ==
    \A r \in rows : \E p \in parents : p.id = r.policy_update_id

\* ON DELETE CASCADE: the child rows left once only `parents` remain.
Cascade(rows, parents) ==
    {r \in rows : \E p \in parents : p.id = r.policy_update_id}

\* save_related_data lines 983-984: an insert of the related data raised;
\* the rest is skipped and save_policy still returns True.
RelatedDataRaised(w) ==
    /\ wpc' = [wpc EXCEPT ![w] = "idle"]
    /\ wret' = [wret EXCEPT ![w] = Returned("True", "related_failed")]
    /\ UNCHANGED <<policy_updates, medical_codes, referenced_documents,
                   document_changes, nextId, wdata, wid>>

\* save_related_data lines 952-960
SaveCodes(w) ==
    /\ wpc[w] = "codes"
    /\ LET rows == ChildRows(wid[w], CodesToSave(wdata[w])) IN
       IF ForeignKeyHolds(rows, policy_updates)
       THEN /\ medical_codes' = medical_codes \cup rows
            /\ wpc' = [wpc EXCEPT ![w] = "docs"]
            /\ UNCHANGED <<policy_updates, referenced_documents,
                           document_changes, nextId, wdata, wid, wret>>
       ELSE RelatedDataRaised(w)

\* save_related_data lines 963-970
SaveDocs(w) ==
    /\ wpc[w] = "docs"
    /\ LET rows == ChildRows(wid[w], DocsToSave(wdata[w])) IN
       IF ForeignKeyHolds(rows, policy_updates)
       THEN /\ referenced_documents' = referenced_documents \cup rows
            /\ wpc' = [wpc EXCEPT ![w] = "changes"]
            /\ UNCHANGED <<policy_updates, medical_codes, document_changes,
                           nextId, wdata, wid, wret>>
       ELSE RelatedDataRaised(w)

\* save_related_data lines 973-981, and save_policy's return True
SaveChanges(w) ==
    /\ wpc[w] = "changes"
    /\ LET rows == ChildRows(wid[w], ChangesToSave(wdata[w])) IN
       IF ForeignKeyHolds(rows, policy_updates)
       THEN /\ document_changes' = document_changes \cup rows
            /\ wpc' = [wpc EXCEPT ![w] = "idle"]
            /\ wret' = [wret EXCEPT ![w] = Returned("True", "saved")]
            /\ UNCHANGED <<policy_updates, medical_codes, referenced_documents,
                           nextId, wdata, wid>>
       ELSE RelatedDataRaised(w)

\* save_related_data lines 983-984: a child insert raises; the rest of the
\* related data is skipped and save_policy still returns True.
SaveRelatedFails(w) ==
    /\ wpc[w] \in {"codes", "docs", "changes"}
    /\ wpc' = [wpc EXCEPT ![w] = "idle"]
    /\ wret' = [wret EXCEPT ![w] = Returned("True", "saved")]
    /\ UNCHANGED <<policy_updates, medical_codes, referenced_documents,
                   document_changes, nextId, wdata, wid>>

\* The worker is terminated in the middle of save_policy (a revoked task,
\* app.py line 408): the call never returns.
SaveCancelled(w) ==
    /\ wpc[w] # "idle"
    /\ wpc' = [wpc EXCEPT ![w] = "idle"]
    /\ wret' = [wret EXCEPT ![w] = Returned("none", "cancelled")]
    /\ UNCHANGED <<policy_updates, medical_codes, referenced_documents,
                   document_changes, nextId, wdata, wid>>

\* The steps of a save_policy call once it has begun.
SaveProceeds(w) ==
    \/ SaveCheck(w) \/ SaveInsert(w) \/ SaveRejected(w)
    \/ SaveCodes(w) \/ SaveDocs(w) \/ SaveChanges(w) \/ SaveRelatedFails(w)
    \/ SaveCancelled(w)

SavePolicyStep(w) == SaveBegin(w) \/ SaveProceeds(w)

\* The dicts saved while clear_data runs: one with a code, a document and a
\* change to insert, and one with no related row to insert.
PoliciesUnderClear == {"P1", "P3"}

SaveUnderClearStep(w) == SaveBeginOf(w, PoliciesUnderClear) \/ SaveProceeds(w)

\* clear_data (app.py): the tables are emptied one request after the other,
\* children first.
tables_to_clear ==
    <<"medical_codes", "referenced_documents", "document_changes",
      "policy_updates">>

\* The position after the delete of table number i.
AfterTable(i) == IF i = Len(tables_to_clear) THEN "idle" ELSE tables_to_clear[i + 1]

\* A POST /api/clear-data arrives.
ClearBegin ==
    /\ cpc = "idle"
    /\ cpc' = tables_to_clear[1]
    /\ UNCHANGED <<policy_updates, medical_codes, referenced_documents,
                   document_changes>>

\* clear_data lines 364-366: delete every row of the table; the store
\* cascades the delete of the policy rows to their children.
ClearTable ==
    \E i \in 1..Len(tables_to_clear) :
       /\ cpc = tables_to_clear[i]
       /\ cpc' = AfterTable(i)
       /\ medical_codes' =
             IF i = 1 THEN {} ELSE IF i = 4 THEN Cascade(medical_codes, {})
             ELSE medical_codes
       /\ referenced_documents' =
             IF i = 2 THEN {} ELSE IF i = 4 THEN Cascade(referenced_documents, {})
             ELSE referenced_documents
       /\ document_changes' =
             IF i = 3 THEN {} ELSE IF i = 4 THEN Cascade(document_changes, {})
             ELSE document_changes
       /\ policy_updates' = IF i = 4 THEN {} ELSE policy_updates

\* clear_data lines 367-369: the delete raises; the table is left as it is
\* and the loop goes on to the next table.
ClearTableFails ==
    \E i \in 1..Len(tables_to_clear) :
       /\ cpc = tables_to_clear[i]
       /\ cpc' = AfterTable(i)
       /\ UNCHANGED <<policy_updates, medical_codes, referenced_documents,
                      document_changes>>

ClearDataStep == ClearBegin \/ ClearTable \/ ClearTableFails

\* Workers saving policies concurrently.
StoreNext ==
    /\ \E w \in Workers : SavePolicyStep(w)
    /\ UNCHANGED <<cpc, scr>>
    /\ UNCHANGED <<trackerVars, monitorVars, validatorVars>>

\* Workers saving policies while clear_data requests are served.
StoreClearNext ==
    /\ \/ (\E w \in Workers : SaveUnderClearStep(w)) /\ UNCHANGED <<cpc, scr>>
       \/ ClearDataStep /\ UNCHANGED <<nextId, wpc, wdata, wid, wret, scr>>
    /\ UNCHANGED <<trackerVars, monitorVars, validatorVars>>

(***************************************************************************)
(* CignaPolicyScraper.run and scrape_policy_url: the batch loops.  The     *)
(* scraper is worker "w1"; its save_policy calls are the steps above.      *)
(***************************************************************************)

\* Bounds on the monthly links the main page yields and on the policy links
\* one monthly PDF yields.
MaxMonthly == 2
MaxLinks == 2

\* run processes monthly_links[:5] (line 1009).
MonthlyLimit == 5

Scraper == "w1"

\* What fetch_individual_policy meets for one link: the request times out
\* or fails to connect, no text can be extracted from the PDF, the
\* recognition returns no record, or a policy_data dict is returned.
FetchFailures == {"timeout", "connection_error", "unparsable", "no_record"}

Min(a, b) == IF a < b THEN a ELSE b

\* scrape_policy_url returns ret: run counts it and goes on to the next
\* monthly link, or ends.
\* slept is the time this run has spent in time.sleep since the previous
\* monthly PDF was processed: the loop of run (lines 1009-1015) goes straight
\* to the next link.
ScrapeReturns(cur, ret) ==
    LET counted == [cur EXCEPT
            !.policies_scraped = IF ret = "True" THEN @ + 1 ELSE @,
            !.failed_months = IF ret = "True" THEN @ ELSE @ + 1,
            !.last = [found |-> cur.found, fetched |-> cur.fetched,
                      failures |-> cur.failures,
                      duplicates |-> cur.duplicates, ret |-> ret],
            !.found = 0, !.l = 0, !.policies_saved = 0,
            !.fetched = 0, !.failures = 0, !.duplicates = 0,
            !.slept = 0]
    IN IF cur.m < cur.months
       THEN [counted EXCEPT !.m = @ + 1, !.pc = "monthly"]
       ELSE [counted EXCEPT !.pc = "done"]

\* The next link of the monthly PDF, or the return of policies_saved > 0.
\* In the variant a link that failed ends the batch.
LinkDone_StopAtFailure(cur) ==
    IF cur.l < cur.found /\ cur.failures = 0
    THEN [cur EXCEPT !.l = @ + 1, !.pc = "link"]
    ELSE ScrapeReturns(cur, IF cur.policies_saved > 0 THEN "True" ELSE "False")

LinkDone(cur) ==
    IF cur.l < cur.found
    THEN [cur EXCEPT !.l = @ + 1, !.pc = "link"]
    ELSE ScrapeReturns(cur, IF cur.policies_saved > 0 THEN "True" ELSE "False")

\* run lines 991-1009: fetch_monthly_links gives n links (none when the
\* request fails); the first MonthlyLimit are selected.
RunBegin ==
    /\ scr.pc = "idle"
    /\ \E n \in 0..MaxMonthly :
          scr' = IF n = 0
                 THEN [scr EXCEPT !.pc = "done"]
                 ELSE [scr EXCEPT !.pc = "monthly", !.m = 1,
                                  !.months = Min(n, MonthlyLimit)]
    /\ UNCHANGED <<policy_updates, medical_codes, referenced_documents,
                   document_changes, nextId, wpc, wdata, wid, wret, cpc>>

\* scrape_policy_url lines 823-839 and 863-865: the request for the monthly
\* PDF raises, or the PDF yields k policy links.
ScrapeMonthly ==
    /\ scr.pc = "monthly"
    /\ LET called == [scr EXCEPT !.calls = @ + 1] IN
       \/ scr' = ScrapeReturns(called, "False")
       \/ \E k \in 0..MaxLinks :
             scr' = IF k = 0
                    THEN ScrapeReturns(called, "False")
                    ELSE [called EXCEPT !.found = k, !.l = 1, !.pc = "link"]
    /\ UNCHANGED <<policy_updates, medical_codes, referenced_documents,
                   document_changes, nextId, wpc, wdata, wid, wret, cpc>>

\* scrape_policy_url lines 840-850 with fetch_individual_policy: the link is
\* fetched; a failure gives no policy_data and the loop goes on, a
\* policy_data dict is handed to save_policy.
ProcessLink ==
    /\ scr.pc = "link"
    /\ wpc[Scraper] = "idle"
    /\ LET fetched == [scr EXCEPT !.fetched = @ + 1] IN
       \/ /\ \E f \in FetchFailures :
                scr' = LinkDone([fetched EXCEPT !.failures = @ + 1])
          /\ UNCHANGED <<wpc, wdata, wid, wret>>
       \/ /\ \E name \in PolicyNames :
                wdata' = [wdata EXCEPT ![Scraper] = name]
          /\ wpc' = [wpc EXCEPT ![Scraper] = "check"]
          /\ wid' = [wid EXCEPT ![Scraper] = 0]
          /\ wret' = [wret EXCEPT ![Scraper] = NoReturn]
          /\ scr' = [fetched EXCEPT !.pc = "saving"]
    /\ UNCHANGED <<policy_updates, medical_codes, referenced_documents,
                   document_changes, nextId, cpc>>

\* The steps of the save_policy call the scraper is in.
ScraperSaves ==
    /\ scr.pc = "saving"
    /\ \/ SaveCheck(Scraper) \/ SaveInsert(Scraper) \/ SaveRejected(Scraper)
       \/ SaveCodes(Scraper) \/ SaveDocs(Scraper) \/ SaveChanges(Scraper)
       \/ SaveRelatedFails(Scraper)
    /\ UNCHANGED <<cpc, scr>>

\* scrape_policy_url lines 847-848: if self.save_policy(policy_data):
\* policies_saved += 1
SaveReturned ==
    /\ scr.pc = "saving"
    /\ wpc[Scraper] = "idle"
    /\ scr' = LinkDone(
          [scr EXCEPT
             !.policies_saved = IF wret[Scraper].value = "True" THEN @ + 1 ELSE @,
             !.duplicates = IF wret[Scraper].why = "duplicate" THEN @ + 1 ELSE @,
             !.failures = IF wret[Scraper].why = "rejected" THEN @ + 1 ELSE @])
    /\ UNCHANGED <<policy_updates, medical_codes, referenced_documents,
                   document_changes, nextId, wpc, wdata, wid, wret, cpc>>

ScraperNext ==
    /\ RunBegin \/ ScrapeMonthly \/ ProcessLink \/ ScraperSaves \/ SaveReturned
    /\ UNCHANGED <<trackerVars, monitorVars, validatorVars>>

(***************************************************************************)
(* Field recognizer: CignaPolicyScraper.extract_medical_codes              *)
(* (src/scraper.py) and DataExtractor._extract_medical_codes               *)
(* (src/backend/scraper/data_extractor.py).  A text is a sequence of       *)
(* characters; a regular expression is modelled by the positions at which  *)
(* it matches and the length of each match.                                *)
(***************************************************************************)

\* Bound on the number of tokens of the enumerated body texts.
MaxTokens == 2

UpperLetters ==
    {"A", "B", "C", "D", "E", "F", "G", "H", "I", "J", "K", "L", "M",
     "N", "O", "P", "Q", "R", "S", "T", "U", "V", "W", "X", "Y", "Z"}
LowerLetters ==
    {"a", "b", "c", "d", "e", "f", "g", "h", "i", "j", "k", "l", "m",
     "n", "o", "p", "q", "r", "s", "t", "u", "v", "w", "x", "y", "z"}

\* \w of the re module, for the characters of the model.
IsWordChar(c) == IsDigit(c) \/ c \in UpperLetters \/ c \in LowerLetters \/ c = "_"

\* \b just before position i of s (positions count from 1; i = Len(s) + 1 is
\* the end of the string).
WordAt(s, i) == i >= 1 /\ i <= Len(s) /\ IsWordChar(s[i])
Boundary(s, i) == WordAt(s, i - 1) # WordAt(s, i)

\* s[i .. i + n - 1] are n digits.
DigitsAt(s, i, n) == i + n - 1 <= Len(s) /\ \A k \in 0..(n - 1) : IsDigit(s[i + k])

\* The elements of a set of integers in increasing order (re.finditer and
\* re.findall scan from left to right).
RECURSIVE Ascending(_)
Ascending(S) ==
    IF S = {} THEN <<>>
    ELSE LET m == CHOOSE x \in S : \A y \in S : x <= y
         IN <<m>> \o Ascending(S \ {m})

\* cpt_pattern \b(\d{5})\b : the length of the match starting at i, 0 for none.
cpt_pattern(s, i) ==
    IF Boundary(s, i) /\ DigitsAt(s, i, 5) /\ Boundary(s, i + 5) THEN 5 ELSE 0

\* hcpcs_pattern \b([A-Z]\d{4})\b
hcpcs_pattern(s, i) ==
    IF Boundary(s, i) /\ s[i] \in UpperLetters /\ DigitsAt(s, i + 1, 4)
       /\ Boundary(s, i + 5)
    THEN 5 ELSE 0

\* The letters of the class [A-TV-Z].
Icd10Letters == UpperLetters \ {"U"}

\* icd10_pattern \b([A-TV-Z]\d{2}(?:\.\d{1,4})?)\b : the optional group is
\* greedy, so the longest fraction that ends at a word boundary is taken, and
\* the match is the bare three characters when no fraction does.
icd10_pattern(s, i) ==
    IF Boundary(s, i) /\ s[i] \in Icd10Letters /\ DigitsAt(s, i + 1, 2)
    THEN LET fractions == {k \in 1..4 :
                              /\ i + 3 <= Len(s) /\ s[i + 3] = "."
                              /\ DigitsAt(s, i + 4, k)
                              /\ Boundary(s, i + 4 + k)}
         IN IF fractions # {}
            THEN 4 + (CHOOSE k \in fractions : \A j \in fractions : j <= k)
            ELSE IF Boundary(s, i + 3) THEN 3 ELSE 0
    ELSE 0

\* icd10_pattern of DataExtractor, \b([A-Z]\d{2}\.?\d{0,2})\b : the dot and the
\* digits are tried greedily, the dot first.
Icd10Pattern(s, i) ==
    IF Boundary(s, i) /\ s[i] \in UpperLetters /\ DigitsAt(s, i + 1, 2)
    THEN LET dot == i + 3 <= Len(s) /\ s[i + 3] = "."
             withDot == {k \in 0..2 : dot /\ DigitsAt(s, i + 4, k)
                                          /\ Boundary(s, i + 4 + k)}
             noDot == {k \in 0..2 : DigitsAt(s, i + 3, k) /\ Boundary(s, i + 3 + k)}
         IN IF withDot # {}
            THEN 4 + (CHOOSE k \in withDot : \A j \in withDot : j <= k)
            ELSE IF noDot # {}
            THEN 3 + (CHOOSE k \in noDot : \A j \in noDot : j <= k)
            ELSE 0
    ELSE 0

\* s.split(sep) for a separator of one character
RECURSIVE Split(_, _)
Split(s, sep) ==
    IF \A i \in 1..Len(s) : s[i] # sep THEN <<s>>
    ELSE LET p == CHOOSE i \in 1..Len(s) :
                      s[i] = sep /\ \A j \in 1..(i - 1) : s[j] # sep
         IN <<SubSeq(s, 1, p - 1)>> \o Split(SubSeq(s, p + 1, Len(s)), sep)

\* text.split('\n')
SplitLines(s) == Split(s, "LF")

\* sub in s
Contains(s, sub) ==
    \E i \in 1..(Len(s) - Len(sub) + 1) : SubSeq(s, i, i + Len(sub) - 1) = sub

\* ' '.join(parts)
RECURSIVE JoinSpace(_)
JoinSpace(parts) ==
    IF parts = <<>> THEN <<>>
    ELSE IF Len(parts) = 1 THEN parts[1]
    ELSE parts[1] \o <<" ">> \o JoinSpace(Tail(parts))

ContextRadius == 50
DescriptionLimit == 200

\* extract_code_description: the first line of the context that holds the
\* code, joined with the two lines after it, whitespace collapsed.
extract_code_description(context, code) ==
    LET lines == SplitLines(context)
        hits == {i \in 1..Len(lines) : Contains(lines[i], code)}
    IN IF hits = {} THEN <<>>
       ELSE LET i == CHOOSE x \in hits : \A y \in hits : x <= y
                last == IF i + 2 < Len(lines) THEN i + 2 ELSE Len(lines)
                parts == [j \in 1..(last - i + 1) |-> Strip(lines[i + j - 1])]
                description == CollapseWhitespace(JoinSpace(parts))
            IN SubSeq(description, 1,
                      IF Len(description) < DescriptionLimit
                      THEN Len(description) ELSE DescriptionLimit)

\* The entry extract_medical_codes appends for the match of length n at i.
CodeEntry(text, i, n, code_type) ==
    LET code == SubSeq(text, i, i + n - 1)
        start == IF i - ContextRadius > 1 THEN i - ContextRadius ELSE 1
        end == IF i + n - 1 + ContextRadius < Len(text)
               THEN i + n - 1 + ContextRadius ELSE Len(text)
    IN [code |-> code, code_type |-> code_type,
        description |-> extract_code_description(SubSeq(text, start, end), code)]

\* The matches of the three passes, each from left to right.
CptMatches(text) == Ascending({i \in 1..Len(text) : cpt_pattern(text, i) > 0})
HcpcsMatches(text) == Ascending({i \in 1..Len(text) : hcpcs_pattern(text, i) > 0})
Icd10Matches(text) == Ascending({i \in 1..Len(text) : icd10_pattern(text, i) > 0})

\* CignaPolicyScraper.extract_medical_codes: three passes, every match
\* appended, the list returned as it is.
extract_medical_codes(text) ==
    LET cpt == CptMatches(text)
        hcpcs == HcpcsMatches(text)
        icd10 == Icd10Matches(text)
    IN [k \in 1..Len(cpt) |-> CodeEntry(text, cpt[k], 5, "CPT")]
       \o [k \in 1..Len(hcpcs) |-> CodeEntry(text, hcpcs[k], 5, "HCPCS")]
       \o [k \in 1..Len(icd10) |->
              CodeEntry(text, icd10[k], icd10_pattern(text, icd10[k]), "ICD-10")]

\* _get_code_description: f"{code_type} Code: {code}"
get_code_description(code, code_type) == <<code_type, " Code: ">> \o code

\* The loop over codes that keeps the first entry of each code_key.
RECURSIVE UniqueCodes(_, _)
UniqueCodes(codes, seen_codes) ==
    IF codes = <<>> THEN <<>>
    ELSE LET code_key == <<Head(codes).code, Head(codes).code_type>>
         IN IF code_key \in seen_codes
            THEN UniqueCodes(Tail(codes), seen_codes)
            ELSE <<Head(codes)>> \o UniqueCodes(Tail(codes), seen_codes \cup {code_key})

\* DataExtractor._extract_medical_codes on soup.get_text(): three findall
\* passes, then the deduplication by code and type.
DataExtractor_extract_medical_codes(text) ==
    LET entry(i, n, code_type) ==
            [code |-> SubSeq(text, i, i + n - 1), code_type |-> code_type,
             description |->
                 get_code_description(SubSeq(text, i, i + n - 1), code_type)]
        cpt == CptMatches(text)
        hcpcs == HcpcsMatches(text)
        icd10 == Ascending({i \in 1..Len(text) : Icd10Pattern(text, i) > 0})
    IN UniqueCodes(
           [k \in 1..Len(cpt) |-> entry(cpt[k], 5, "CPT")]
           \o [k \in 1..Len(hcpcs) |-> entry(hcpcs[k], 5, "HCPCS")]
           \o [k \in 1..Len(icd10) |->
                  entry(icd10[k], Icd10Pattern(text, icd10[k]), "ICD10")],
           {})

\* Sample tokens and separators of the enumerated body texts.
CodeTokens ==
    {<<"1", "2", "3", "4", "5">>, <<"1", "2", "3", "4", "5", "6">>,
     <<"J", "1", "2", "3", "4">>, <<"j", "1", "2", "3", "4">>,
     <<"A", "1", "2">>, <<"A", "1", "2", ".", "3">>,
     <<"A", "1", "2", ".", "3", "4", "5", "6", "7">>,
     <<"U", "0", "7", ".", "1">>, <<"a", "b">>}
Separators == {" ", "LF", ",", "_"}

RECURSIVE TextsOf(_)
TextsOf(n) ==
    IF n = 0 THEN {<<>>}
    ELSE IF n = 1 THEN CodeTokens
    ELSE {t \o <<sep>> \o tok : t \in TextsOf(n - 1), sep \in Separators,
                                tok \in CodeTokens}

BodyTexts == UNION {TextsOf(n) : n \in 0..MaxTokens}

\* A caller holds a body text.
CodesInit ==
    /\ fpc = "text"
    /\ fargs \in BodyTexts
    /\ fret = <<>>

\* codes = scraper.extract_medical_codes(text)
ExtractMedicalCodes ==
    /\ fpc = "text"
    /\ fret' = extract_medical_codes(fargs)
    /\ fpc' = "extract_medical_codes"
    /\ UNCHANGED <<fargs, vpc, candidate, vresult, vresult2>>
    /\ UNCHANGED <<trackerVars, monitorVars, storeVars>>

\* codes = data_extractor._extract_medical_codes(soup), soup holding the text
DataExtractorExtractMedicalCodes ==
    /\ fpc = "text"
    /\ fret' = DataExtractor_extract_medical_codes(fargs)
    /\ fpc' = "_extract_medical_codes"
    /\ UNCHANGED <<fargs, vpc, candidate, vresult, vresult2>>
    /\ UNCHANGED <<trackerVars, monitorVars, storeVars>>

CodesNext == ExtractMedicalCodes \/ DataExtractorExtractMedicalCodes

(***************************************************************************)
(* Field recognizer: CignaPolicyScraper.extract_document_changes           *)
(***************************************************************************)

\* Bound on the number of semicolon-separated fragments of the enumerated
\* comments.
MaxFragments == 2

UpperSeq ==
    <<"A", "B", "C", "D", "E", "F", "G", "H", "I", "J", "K", "L", "M",
      "N", "O", "P", "Q", "R", "S", "T", "U", "V", "W", "X", "Y", "Z">>
LowerSeq ==
    <<"a", "b", "c", "d", "e", "f", "g", "h", "i", "j", "k", "l", "m",
      "n", "o", "p", "q", "r", "s", "t", "u", "v", "w", "x", "y", "z">>

\* str.lower() and str.upper() on one character
ToLower(c) ==
    IF c \in UpperLetters
    THEN LowerSeq[CHOOSE i \in 1..26 : UpperSeq[i] = c] ELSE c
ToUpper(c) ==
    IF c \in LowerLetters
    THEN UpperSeq[CHOOSE i \in 1..26 : LowerSeq[i] = c] ELSE c

\* str.lower()
Lower(s) == [i \in 1..Len(s) |-> ToLower(s[i])]

\* The three keyword lists, in the order of the if / elif chain.
AdditionWords == {<<"n", "e", "w">>, <<"a", "d", "d", "e", "d">>}
RemovalWords == {<<"r", "e", "m", "o", "v", "e", "d">>, <<"d", "e", "l", "e", "t", "e", "d">>, <<"r", "e", "t", "i", "r", "e", "d">>}
ModificationWords == {<<"u", "p", "d", "a", "t", "e", "d">>, <<"m", "o", "d", "i", "f", "i", "e", "d">>, <<"c", "h", "a", "n", "g", "e", "d">>}

\* any(word in part.lower() for word in words)
AnyWordIn(part, words) == \E word \in words : Contains(Lower(part), word)

\* The if / elif chain with the removal words tested first.
change_type_RemovalFirst(part) ==
    IF AnyWordIn(part, RemovalWords) THEN "Removal"
    ELSE IF AnyWordIn(part, AdditionWords) THEN "Addition"
    ELSE "Modification"

\* change_type = "Modification", then the if / elif chain.
change_type(part) ==
    IF AnyWordIn(part, AdditionWords) THEN "Addition"
    ELSE IF AnyWordIn(part, RemovalWords) THEN "Removal"
    ELSE IF AnyWordIn(part, ModificationWords) THEN "Modification"
    ELSE "Modification"

\* The loop over comment_parts: strip, skip the empty ones, append an entry.
RECURSIVE ChangeEntries(_)
ChangeEntries(comment_parts) ==
    IF comment_parts = <<>> THEN <<>>
    ELSE LET part == Strip(Head(comment_parts))
         IN IF part = <<>> THEN ChangeEntries(Tail(comment_parts))
            ELSE <<[document_title |-> "Policy Update",
                    change_type |-> change_type(part),
                    change_description |-> part,
                    section_affected |-> "General"]>>
                 \o ChangeEntries(Tail(comment_parts))

extract_document_changes(comments) ==
    IF comments = <<>> THEN <<>>
    ELSE ChangeEntries(Split(comments, ";"))

\* Sample fragments of the enumerated comments.
Fragments ==
    {<<>>, <<" ">>, <<"N", "e", "w">>, <<" ", "A", "d", "d", "e", "d", " ", "x", " ">>, <<"d", "e", "l", "e", "t", "e", "d">>, <<"p", "o", "l", "i", "c", "y", " ", "c", "h", "a", "n", "g", "e", "d">>, <<"r", "e", "n", "e", "w", "e", "d">>, <<"n", "e", "w", " ", "r", "e", "t", "i", "r", "e", "d">>, <<"x">>, <<"U", "p", "d", "a", "t", "e", "d", ",", " ", "r", "e", "m", "o", "v", "e", "d">>}

RECURSIVE CommentsOf(_)
CommentsOf(n) ==
    IF n = 1 THEN Fragments
    ELSE {c \o <<";">> \o f : c \in CommentsOf(n - 1), f \in Fragments}

CommentSamples == UNION {CommentsOf(n) : n \in 1..MaxFragments}

\* A caller holds the comments of a monthly link.
ChangesInit ==
    /\ fpc = "comments"
    /\ fargs \in CommentSamples
    /\ fret = <<>>

\* document_changes = self.extract_document_changes(comments)
ExtractDocumentChanges ==
    /\ fpc = "comments"
    /\ fret' = extract_document_changes(fargs)
    /\ fpc' = "extract_document_changes"
    /\ UNCHANGED <<fargs, vpc, candidate, vresult, vresult2>>
    /\ UNCHANGED <<trackerVars, monitorVars, storeVars>>

ChangesNext == ExtractDocumentChanges

(***************************************************************************)
(* Link / title resolver: CignaPolicyScraper.extract_title_from_url and    *)
(* extract_title_near_coordinates.  A page is the tables and the words its *)
(* extraction gives; an annotation is a uri and the box of the link.       *)
(***************************************************************************)

\* s[i .. i + Len(lit) - 1] = lit
MatchAt(s, i, lit) ==
    i >= 1 /\ i + Len(lit) - 1 <= Len(s) /\ SubSeq(s, i, i + Len(lit) - 1) = lit

\* s.startswith(lit)
StartsWith(s, lit) == MatchAt(s, 1, lit)

\* The number of digits of s from position i on (a greedy \d+).
RECURSIVE DigitRun(_, _)
DigitRun(s, i) ==
    IF i <= Len(s) /\ IsDigit(s[i]) THEN 1 + DigitRun(s, i + 1) ELSE 0

IsLetter(c) == c \in UpperLetters \/ c \in LowerLetters

\* str.title(): a letter is upper-cased after a character that is no letter
\* and lower-cased after a letter.
Title(s) ==
    [i \in 1..Len(s) |->
        IF ~IsLetter(s[i]) THEN s[i]
        ELSE IF i = 1 \/ ~IsLetter(s[i - 1]) THEN ToUpper(s[i]) ELSE ToLower(s[i])]

\* s.replace('_', ' ')
UnderscoresToSpaces(s) == [i \in 1..Len(s) |-> IF s[i] = "_" THEN " " ELSE s[i]]

NoMatch == [matched |-> FALSE, group |-> <<>>]

\* re.search(prefix + r'\d+' + middle + r'(.+)\.pdf', url): the leftmost
\* start, the whole run of digits, and the longest group that is followed by
\* ".pdf" ('.' matches no newline).
SearchConvention(url, prefix, middle) ==
    LET groupStart(i) == i + Len(prefix) + DigitRun(url, i + Len(prefix)) + Len(middle)
        ends(i) == {e \in (groupStart(i) + 1)..Len(url) :
                       /\ MatchAt(url, e, <<".", "p", "d", "f">>)
                       /\ \A k \in groupStart(i)..(e - 1) : url[k] # "LF"}
        starts == {i \in 1..Len(url) :
                      /\ MatchAt(url, i, prefix)
                      /\ DigitRun(url, i + Len(prefix)) >= 1
                      /\ MatchAt(url, i + Len(prefix) + DigitRun(url, i + Len(prefix)),
                                 middle)
                      /\ ends(i) # {}}
    IN IF starts = {} THEN NoMatch
       ELSE LET i == CHOOSE x \in starts : \A y \in starts : x <= y
                e == CHOOSE x \in ends(i) : \A y \in ends(i) : y <= x
            IN [matched |-> TRUE, group |-> SubSeq(url, groupStart(i), e - 1)]

PolicyPrefixes == <<<<"m", "m", "_">>, <<"i", "p", "_">>, <<"p", "h", "_">>>>
CriteriaMiddle == <<"_", "c", "o", "v", "e", "r", "a", "g", "e", "p", "o", "s", "i", "t", "i",
        "o", "n", "c", "r", "i", "t", "e", "r", "i", "a", "_">>
PositionMiddle == <<"_", "c", "o", "v", "e", "r", "a", "g", "e", "p", "o", "s", "i", "t", "i",
        "o", "n", "_">>

\* The first of the patterns, in list order, that matches the url.
RECURSIVE FirstPattern(_, _)
FirstPattern(url, patterns) ==
    IF patterns = <<>> THEN NoMatch
    ELSE LET m == SearchConvention(url, Head(patterns)[1], Head(patterns)[2])
         IN IF m.matched THEN m ELSE FirstPattern(url, Tail(patterns))

\* patterns of extract_title_from_url
UrlPatterns == [k \in 1..3 |-> <<PolicyPrefixes[k], CriteriaMiddle>>]
\* patterns of the last resort of extract_title_near_coordinates
LastResortPatterns == UrlPatterns \o <<<<<<"p", "h", "_">>, PositionMiddle>>>>

\* re.search(r'(mm_|ip_|ph_)(\d+)', url): the policy type, upper-cased with
\* the underscore stripped, followed by the number.
PolicyTypeAndNumber(url) ==
    LET starts == {i \in 1..Len(url) :
                      \E k \in 1..3 : /\ MatchAt(url, i, PolicyPrefixes[k])
                                      /\ DigitRun(url, i + 3) >= 1}
    IN IF starts = {} THEN <<>>
       ELSE LET i == CHOOSE x \in starts : \A y \in starts : x <= y
            IN <<ToUpper(url[i]), ToUpper(url[i + 1])>>
               \o SubSeq(url, i + 3, i + 2 + DigitRun(url, i + 3))

UnknownPolicy == <<"U", "n", "k", "n", "o", "w", "n", " ", "P", "o", "l", "i", "c", "y">>

\* extract_title_from_url: f"{policy_name} - ({policy_type}{policy_number})"
extract_title_from_url(url) ==
    LET m == FirstPattern(url, UrlPatterns)
        policy_name == Title(UnderscoresToSpaces(m.group))
    IN IF ~m.matched THEN UnknownPolicy
       ELSE IF PolicyTypeAndNumber(url) # <<>>
       THEN policy_name \o <<" ", "-", " ", "(">> \o PolicyTypeAndNumber(url) \o <<")">>
       ELSE policy_name

\* The test on a table cell (a cell is [present, s]; None is not present).
CellIsTitle(cell) ==
    /\ Truthy(cell)
    /\ LET cell_text == Strip(cell.s)
       IN /\ Len(cell_text) < 100
          /\ Len(cell_text) > 5
          /\ ~StartsWith(cell_text, <<"BULLET">>)
          /\ ~StartsWith(cell_text, <<"E", "f", "f", "e", "c", "t", "i", "v", "e">>)
          /\ ~Contains(cell_text, <<"P", "o", "l", "i", "c", "y", " ", "S", "t", "a", "t",
                  "e", "m", "e", "n", "t">>)
          /\ ~Contains(Lower(cell_text), <<"a", "u", "t", "h", "o", "r", "i", "z", "e", "s",
                  " ", "c", "o", "v", "e", "r", "a", "g", "e">>)
          /\ ~Contains(cell_text, <<"C", "o", "v", "e", "r", "a", "g", "e", " ", "P", "o",
                  "l", "i", "c", "y", " ", "U", "n", "i", "t">>)
          /\ ~Contains(cell_text, <<"M", "o", "n", "t", "h", "l", "y", " ", "P", "o", "l",
                  "i", "c", "y", " ", "U", "p", "d", "a", "t", "e", "s">>)
          /\ ~Contains(cell_text, <<"C", "P", "U">>)
          /\ ~StartsWith(cell_text, <<"a", "n", "d", " ">>)
          /\ Contains(cell_text, <<"(">>) /\ Contains(cell_text, <<")">>)

\* The cells of all tables in reading order: table by table, row by row.
RECURSIVE Flatten(_)
Flatten(seqs) == IF seqs = <<>> THEN <<>> ELSE Head(seqs) \o Flatten(Tail(seqs))
CellsOf(tables) == Flatten(Flatten(tables))

\* The first cell that passes the test, None when there is none.
TitleFromTables(tables) ==
    LET cells == CellsOf(tables)
        hits == {k \in 1..Len(cells) : CellIsTitle(cells[k])}
    IN IF hits = {} THEN Absent
       ELSE Str(Strip(cells[CHOOSE k \in hits : \A j \in hits : k <= j].s))

VerticalTolerance == 15
HorizontalWindow == 100
MinTitleLen == 5

Abs(x) == IF x < 0 THEN -x ELSE x

\* The test on a word of the page against the box of the link.
WordIsNear(word, annot) ==
    /\ Abs(word.y0 - annot.y0) < VerticalTolerance
    /\ word.x0 < annot.x1 + HorizontalWindow
    /\ word.x1 > annot.x0 - HorizontalWindow

\* sorted(words, key=x0): a stable sort.
RECURSIVE SortByX0(_)
SortByX0(words) ==
    IF words = <<>> THEN <<>>
    ELSE LET k == CHOOSE i \in 1..Len(words) :
                      \A j \in 1..Len(words) :
                          \/ words[i].x0 < words[j].x0
                          \/ (words[i].x0 = words[j].x0 /\ i <= j)
         IN <<words[k]>>
            \o SortByX0([j \in 1..(Len(words) - 1) |->
                            IF j < k THEN words[j] ELSE words[j + 1]])

\* The words near the link, joined from left to right and stripped.
TitleFromWords(words, annot) ==
    LET nearby_words == SortByX0(SelectSeq(words, LAMBDA w : WordIsNear(w, annot)))
    IN Strip(JoinSpace([k \in 1..Len(nearby_words) |-> nearby_words[k].text]))

\* extract_title_near_coordinates(page, annot); an extraction of the page
\* that raises ends in the except branch.
extract_title_near_coordinates(page, annot) ==
    LET title_from_url == extract_title_from_url(annot.uri)
        title_text == TitleFromWords(page.words, annot)
        last == FirstPattern(annot.uri, LastResortPatterns)
    IN IF annot.uri # <<>> /\ title_from_url # <<>> /\ title_from_url # UnknownPolicy
       THEN title_from_url
       ELSE IF page.raises THEN UnknownPolicy
       ELSE IF TitleFromTables(page.tables).present THEN TitleFromTables(page.tables).s
       ELSE IF title_text # <<>> /\ Len(title_text) > MinTitleLen THEN title_text
       ELSE IF annot.uri # <<>> /\ last.matched
       THEN Title(UnderscoresToSpaces(last.group))
       ELSE UnknownPolicy

\* Sample uris, tables and words.
UriSamples ==
    {<<>>, <<"h", "/", "m", "m", "_", "0", "5", "8", "6", "_", "c", "o", "v", "e", "r", "a",
            "g", "e", "p", "o", "s", "i", "t", "i", "o", "n", "c", "r", "i", "t", "e", "r",
                    "i", "a", "_", "a", "l", "v", "e", "o", "l", "o", "p", "l", "a", "s", "t",
                            "y", ".", "p", "d", "f">>, <<"h", "/", "i", "p", "_", "0", "1",
                                    "2", "3", "_", "c", "o", "v", "e", "r", "a", "g", "e",
                                            "p", "o", "s", "i", "t", "i", "o", "n", "c", "r",
                                                    "i", "t", "e", "r", "i", "a", "_", "a",
                                                            "_", "b", ".", "p", "d", "f", ".",
                                                                    "p", "d", "f">>,
     <<"h", "/", "p", "h", "_", "1", "_", "c", "o", "v", "e", "r", "a", "g", "e", "p", "o",
             "s", "i", "t", "i", "o", "n", "_", "x", "_", "y", ".", "p", "d", "f">>, <<"h",
                     "/", "m", "m", "_", "1", "2", ".", "p", "d", "f">>, <<"h", "/", "p", "h",
                             "_", "9", "_", "c", "o", "v", "e", "r", "a", "g", "e", "p", "o",
                                     "s", "i", "t", "i", "o", "n", "c", "r", "i", "t", "e",
                                             "r", "i", "a", "_", "3", "d", "_", "s", "c", "a",
                                                     "n", "'", "s", ".", "p", "d", "f">>}

Cell(s) == Str(s)
TableSamples ==
    {<<>>,
     << <<  <<Absent, Cell(<<"E", "f", "f", "e", "c", "t", "i", "v", "e", " ", "(", "1",
             ")">>)>>, <<Cell(<<" ", "T", "i", "t", "l", "e", " ", "(", "0", "5", "8", "6",
                     ")", " ">>), Cell(<<"O", "t", "h", "e", "r", " ", "(", "1", "2", "3",
                             "4", ")">>)>>  >> >>,
     << <<  <<Cell(<<"C", "P", "U", " ", "(", "1", ")">>), Cell(<<"N", "o", " ", "d", "i",
             "g", "i", "t", "s">>)>>  >> >>,
     << <<  <<Cell(<<"(", "1", ")">>)>>  >>, <<  <<Cell(<<"a", "n", "d", " ", "s", "o", " ",
             "(", "1", ")">>), Cell(<<"O", "t", "h", "e", "r", " ", "(", "1", "2", "3", "4",
                     ")">>)>>  >> >>}

LinkBox == [x0 |-> 200, y0 |-> 50, x1 |-> 260, y1 |-> 60]
Word(x0, y0, x1, text) == [x0 |-> x0, y0 |-> y0, x1 |-> x1, text |-> text]
WordSamples ==
    {<<>>,
     <<Word(270, 52, 300, <<"G", "r", "a", "f", "t">>), Word(150, 48, 190, <<"B", "o", "n",
             "e">>)>>,
     <<Word(150, 48, 190, <<"U", "p">>), Word(150, 65, 190, <<"B", "o", "n", "e">>)>>,
     <<Word(361, 50, 400, <<"B", "o", "n", "e">>), Word(60, 50, 100, <<"G", "r", "a", "f",
             "t">>), Word(150, 36, 190, <<"U", "p">>)>>}

TitleInputs ==
    {[page |-> [tables |-> t, words |-> w, raises |-> r],
      annot |-> [uri |-> u, x0 |-> LinkBox.x0, y0 |-> LinkBox.y0,
                 x1 |-> LinkBox.x1, y1 |-> LinkBox.y1]] :
        t \in TableSamples, w \in WordSamples, r \in BOOLEAN, u \in UriSamples}

\* extract_hyperlinks_from_page holds an annotation with a uri.
TitleInit ==
    /\ fpc = "annot"
    /\ fargs \in TitleInputs
    /\ fret = <<>>

\* title = self.extract_title_near_coordinates(page, annot)
ExtractTitleNearCoordinates ==
    /\ fpc = "annot"
    /\ fret' = extract_title_near_coordinates(fargs.page, fargs.annot)
    /\ fpc' = "extract_title_near_coordinates"
    /\ UNCHANGED <<fargs, vpc, candidate, vresult, vresult2>>
    /\ UNCHANGED <<trackerVars, monitorVars, storeVars>>

TitleNext == ExtractTitleNearCoordinates

(***************************************************************************)
(* ResourceMonitor.get_optimal_worker_count                                *)
(***************************************************************************)

\* Bound on psutil.cpu_count() in the enumerated inputs.
MaxCores == 10

Max(a, b) == IF a > b THEN a ELSE b

\* One worker per core.
BaseWorkers_PerCore(cpu_count) == Min(cpu_count, 4)

\* optimal_workers = min(cpu_count // 2, 4)
BaseWorkers(cpu_count) == Min(cpu_count \div 2, 4)

\* Reduce if memory is low.
MemoryReduced(optimal_workers, memory_gb) ==
    IF memory_gb < 2 THEN 1
    ELSE IF memory_gb < 4 THEN Min(optimal_workers, 2)
    ELSE optimal_workers

\* Reduce if CPU usage is high.
CpuReduced(optimal_workers, cpu_percent) ==
    IF cpu_percent > 60 THEN Max(1, optimal_workers - 1) ELSE optimal_workers

\* get_optimal_worker_count with get_system_metrics() giving metrics and
\* psutil.cpu_count() giving cpu_count.
get_optimal_worker_count(metrics, cpu_count) ==
    IF ~metrics.available THEN 1
    ELSE Max(1, CpuReduced(MemoryReduced(BaseWorkers(cpu_count),
                                         metrics.memory_available_gb),
                           metrics.cpu_percent))

\* Sample values of memory_available_gb and cpu_percent around the tests.
MemoryGbSamples == {1, 2, 3, 4, 5}
CpuPercentSamples == {59, 60, 61}

WorkerCountInputs ==
    {[metrics |-> [available |-> TRUE, memory_available_gb |-> g, cpu_percent |-> c],
      cpu_count |-> n] :
        g \in MemoryGbSamples, c \in CpuPercentSamples, n \in 1..MaxCores}
    \cup {[metrics |-> [available |-> FALSE, memory_available_gb |-> 0,
                        cpu_percent |-> 0],
           cpu_count |-> n] : n \in 1..MaxCores}

\* A caller is about to size the worker pool.
WorkerCountInit ==
    /\ fpc = "metrics"
    /\ fargs \in WorkerCountInputs
    /\ fret = <<>>

\* optimal_workers = resource_monitor.get_optimal_worker_count()
GetOptimalWorkerCount ==
    /\ fpc = "metrics"
    /\ fret' = get_optimal_worker_count(fargs.metrics, fargs.cpu_count)
    /\ fpc' = "get_optimal_worker_count"
    /\ UNCHANGED <<fargs, vpc, candidate, vresult, vresult2>>
    /\ UNCHANGED <<trackerVars, monitorVars, storeVars>>

WorkerCountNext == GetOptimalWorkerCount

\* The tracker's API, called in any order with any arguments.
TrackerNext ==
    StartTask \/ UpdateProgress \/ CompleteTask \/ CleanupOldTasks \/ TrackerTick

\* One task run once from start_task to complete_task.
TrackerRunNext == RunStart \/ RunUpdate \/ RunComplete \/ TrackerTick

\* Two trackers, each in its own worker process, on the one store.
TrackerSharedNext ==
    \/ PairStart \/ PairUpdate \/ PairComplete
    \/ OtherStartTask \/ OtherUpdateProgress \/ TrackerTick

\* Two tasks started, updated, completed, cleaned up and left to expire.
TrackerPairNext ==
    PairStart \/ PairUpdate \/ PairComplete \/ CleanupOldTasks \/ TrackerTick

\* The monitor polled at any moment.
MonitorNext == ShouldThrottle \/ MonitorTick

\* A worker running wrapped units of work, one after the other.
WorkerNext == WrapperCheck \/ WrapperSleep \/ WrapperReturn \/ MonitorTick

(***************************************************************************)
(* Specifications                                                          *)
(***************************************************************************)

TrackerIdle == TrackerInit
MonitorIdle == MonitorInit
StoreIdle == StoreInit

InitTracker == TrackerInit /\ MonitorIdle /\ StoreIdle /\ ValidatorIdle
InitMonitor == MonitorInit /\ TrackerIdle /\ StoreIdle /\ ValidatorIdle
InitStore == StoreInit /\ TrackerIdle /\ MonitorIdle /\ ValidatorIdle
InitValidator == ValidatorInit /\ TrackerIdle /\ MonitorIdle /\ StoreIdle

SpecTracker == InitTracker /\ [][TrackerNext]_vars
SpecTrackerPair == InitTracker /\ [][TrackerPairNext]_vars
SpecTrackerRun == InitTracker /\ [][TrackerRunNext]_vars
SpecTrackerShared == InitTracker /\ [][TrackerSharedNext]_vars
SpecMonitor == InitMonitor /\ [][MonitorNext]_vars
SpecWorker == InitMonitor /\ [][WorkerNext]_vars
SpecMonitorThreads == InitMonitor /\ [][ThreadsNext]_vars
SpecStore == InitStore /\ [][StoreNext]_vars
SpecStoreClear == InitStore /\ [][StoreClearNext]_vars
SpecScraper == InitStore /\ [][ScraperNext]_vars
SpecValidator == InitValidator /\ [][ValidatorNext]_vars

\* Pure functions, each applied once to an enumerated input.
\* The other components at rest, for the specifications of pure functions.
OthersIdle ==
    /\ vpc = "idle" /\ candidate = NoCandidate
    /\ vresult = NoResult /\ vresult2 = NoResult
    /\ TrackerIdle /\ MonitorIdle /\ StoreIdle

InitCodes == CodesInit /\ OthersIdle
SpecCodes == InitCodes /\ [][CodesNext]_vars

InitChanges == ChangesInit /\ OthersIdle
SpecChanges == InitChanges /\ [][ChangesNext]_vars

InitTitle == TitleInit /\ OthersIdle
SpecTitle == InitTitle /\ [][TitleNext]_vars

InitWorkerCount == WorkerCountInit /\ OthersIdle
SpecWorkerCount == InitWorkerCount /\ [][WorkerCountNext]_vars

(***************************************************************************)
(* Properties                                                              *)
(***************************************************************************)

\* The status order started -> processing* -> {completed | failed}.
StatusStepAllowed(a, b) ==
    \/ a = b
    \/ a = "started" /\ b \in {"processing", "completed", "failed"}
    \/ a = "processing" /\ b \in {"completed", "failed"}

\* C1: the stored status of a task only moves started -> processing* ->
\* completed or failed, and a stored completed or failed status is never
\* changed by a later start_task, update_progress or complete_task call.
C1_StatusMonotonic ==
    [][\A t \in (DOMAIN redis) \cap (DOMAIN redis') :
          StatusStepAllowed(redis[t].data.status, redis'[t].data.status)]_vars

\* C2: in every state, for every tracked and every stored task,
\* items_processed is at most items_total.
C2_ProcessedAtMostTotal ==
    /\ \A t \in DOMAIN active_tasks :
          active_tasks[t].items_processed <= active_tasks[t].items_total
    /\ \A t \in DOMAIN redis :
          redis[t].data.items_processed <= redis[t].data.items_total

C4_OneRowPerUrl ==
    \A r1, r2 \in policy_updates :
        r1.policy_url = r2.policy_url => r1 = r2

\* The policy URL save_policy looks up and stores for a policy_data.
UrlOf(name) == IF PolicyData[name].url.present THEN PolicyData[name].url.s ELSE <<>>

\* C5: a save_policy call whose existence check runs (the worker is not
\* terminated before it) when a row with its URL is in the store ends there
\* with False, and leaves all four tables as they were.
C5_SecondSaveIsNoOp ==
    [][\A w \in Workers :
          (/\ wpc[w] = "check"
           /\ wpc'[w] # "check"
           /\ wret'[w].why # "cancelled"
           /\ \E r \in policy_updates : r.policy_url = UrlOf(wdata[w]))
          => /\ wpc'[w] = "idle"
             /\ wret'[w].value = "False"
             /\ policy_updates' = policy_updates
             /\ medical_codes' = medical_codes
             /\ referenced_documents' = referenced_documents
             /\ document_changes' = document_changes]_vars

\* A second save_policy for a stored URL has returned as a duplicate.
C5_Witness ==
    \E w \in Workers :
        /\ wpc[w] = "idle"
        /\ wret[w] = Returned("False", "duplicate")
        /\ Cardinality({r \in policy_updates : r.policy_url = UrlOf(wdata[w])}) = 1

\* C6: every row of policy_updates was made from a policy_data that the
\* validator finds valid, and holds its cleaned title.
C6_OnlyValidRecordsStored ==
    \A r \in policy_updates :
        LET res == validate_policy_data(AsCandidate(PolicyData[r.src])) IN
        /\ res.is_valid
        /\ r.title = res.validated_data.title.s

\* The conditions the claim names for an invalid record.
TitleMissingOrEmpty(x) == ~x.title.present \/ x.title.s = <<>>
UrlMissingOrEmpty(x) == ~x.url.present \/ x.url.s = <<>>
UrlLacksSchemeOrHost(x) ==
    x.url.present /\ (UrlScheme(x.url.s) = <<>> \/ UrlNetloc(x.url.s) = <<>>)

InSeq(e, sq) == \E i \in 1..Len(sq) : sq[i] = e

\* C7: is_valid is false exactly when the title or the url is missing or
\* empty or the url lacks a scheme or a host; a title shorter than 5 gives
\* the too-short warning and leaves is_valid alone.
C7_IsValidExactly ==
    vpc \in {"validated", "revalidated"} =>
        /\ vresult.is_valid <=>
              ~(TitleMissingOrEmpty(candidate) \/ UrlMissingOrEmpty(candidate)
                \/ UrlLacksSchemeOrHost(candidate))
        /\ (~TitleMissingOrEmpty(candidate) /\ Len(candidate.title.s) < 5)
              => InSeq("Title seems too short", vresult.warnings)

\* A validated record with a title of length 3: the too-short warning is
\* there and is_valid is true.
C7_Witness ==
    /\ vpc = "validated"
    /\ Len(candidate.title.s) = 3
    /\ vresult.is_valid
    /\ InSeq("Title seems too short", vresult.warnings)

\* C8: validating the cleaned record again gives the same cleaned record.
C8_CleaningIsFixedPoint ==
    vpc = "revalidated" => vresult2.validated_data = vresult.validated_data

\* The probe "fails or answers too slowly", with a response time equal to
\* the threshold not counted as too slow.
ProbeFailsOrOverThreshold(probe) ==
    probe.raised \/ probe.status_code # 200
        \/ probe.response_time > frontend_response_threshold

\* The probe "fails or answers too slowly", with a response time equal to
\* the threshold counted as too slow.
ProbeFailsOrAtThreshold(probe) ==
    probe.raised \/ probe.status_code # 200
        \/ probe.response_time >= frontend_response_threshold

\* C9 as stated: with the breaker inactive and a sample available, the call
\* returns true exactly when CPU > 70, memory > 80 or the probe fails or is
\* too slow, and no value equal to its threshold throttles.
C9_ThrottleExactly ==
    (mcall.called /\ ~mcall.active_before /\ mcall.metrics.available)
    => (mcall.ret <=>
           \/ mcall.metrics.cpu_percent > cpu_threshold
           \/ mcall.metrics.memory_percent > memory_threshold
           \/ ProbeFailsOrOverThreshold(mcall.probe))

\* C9 as amended: the same, with a probe response time equal to the 2 second
\* threshold counted as too slow; CPU or memory equal to its threshold does
\* not throttle.
C9_ThrottleExactlyAmended ==
    (mcall.called /\ ~mcall.active_before /\ mcall.metrics.available)
    => (mcall.ret <=>
           \/ mcall.metrics.cpu_percent > cpu_threshold
           \/ mcall.metrics.memory_percent > memory_threshold
           \/ ProbeFailsOrAtThreshold(mcall.probe))

\* A call with the breaker inactive, CPU and memory equal to their
\* thresholds and a fast probe, that returned false.
C9_Witness ==
    /\ mcall.called /\ ~mcall.active_before /\ mcall.metrics.available
    /\ mcall.metrics.cpu_percent = cpu_threshold
    /\ mcall.metrics.memory_percent = memory_threshold
    /\ mcall.probed /\ ~mcall.probe.raised
    /\ mcall.probe.status_code = 200
    /\ mcall.probe.response_time < frontend_response_threshold
    /\ ~mcall.ret

BothOver(metrics) ==
    metrics.cpu_percent > cpu_threshold /\ metrics.memory_percent > memory_threshold

\* C10: the breaker is activated only by a call whose sample has CPU above
\* 70% and memory above 80%; a call that evaluates a sample with only one of
\* them over, or only a failing probe, returns true and leaves it inactive.
C10_TripOnlyWhenBothHigh ==
    mcall.called =>
        /\ (trippedAt # mcall.prevTrippedAt)
              => (mcall.metrics.available /\ BothOver(mcall.metrics))
        /\ (circuit_breaker_active /\ ~mcall.active_before)
              => (mcall.metrics.available /\ BothOver(mcall.metrics))
        /\ (/\ mcall.probed
            /\ ~BothOver(mcall.metrics)
            /\ \/ mcall.metrics.cpu_percent > cpu_threshold
               \/ mcall.metrics.memory_percent > memory_threshold
               \/ ProbeFailsOrAtThreshold(mcall.probe))
              => (mcall.ret /\ ~circuit_breaker_active)

\* A call with only the CPU over its threshold: it throttles, the breaker
\* stays inactive.
C10_Witness ==
    /\ mcall.called /\ ~mcall.active_before /\ mcall.probed
    /\ mcall.metrics.cpu_percent > cpu_threshold
    /\ mcall.metrics.memory_percent <= memory_threshold
    /\ mcall.ret
    /\ ~circuit_breaker_active

\* The calls that save the record they return.
SavingOps == {"start_task", "update_progress", "complete_task"}

\* The last tracker call returned a record.
ReturnedRecord == tcall.op \in SavingOps /\ tcall.found /\ ~tcall.raised

C12_StoredCountNeverDecreases ==
    [][\A t \in (DOMAIN redis) \cap (DOMAIN redis') :
          redis'[t].data.items_processed >= redis[t].data.items_processed]_vars

C14_ExpiresAfterTTL ==
    (ReturnedRecord /\ tnow - tcall.at >= 3600) =>
        /\ ~get_progress(tcall.task).found
        /\ tcall.task \notin get_all_active_tasks

\* A task left in status processing whose record has expired.
C14_Witness ==
    /\ ReturnedRecord
    /\ tcall.op = "update_progress"
    /\ tcall.ret.status = "processing"
    /\ tnow - tcall.at >= 3600
    /\ tcall.task \in DOMAIN active_tasks
    /\ ~get_progress(tcall.task).found

C16_UpdateNeverRaises ==
    (tcall.op = "update_progress" /\ tcall.found) => ~tcall.raised

\* The circuit breaker is active: it was activated and its 60 seconds have
\* not passed.
BreakerActive ==
    circuit_breaker_active /\ ~CooldownExpired(now, circuit_breaker_start_time)

\* C17: no wrapped unit of work starts executing while the circuit breaker
\* is active.
C17_NoUnitWhileBreakerActive ==
    [][(upc # "running" /\ upc' = "running") => ~BreakerActive']_vars

\* The rows of the three child tables.
ChildTables == medical_codes \cup referenced_documents \cup document_changes

C19_BatchSurvivesFailures ==
    /\ (scr.last.ret # "none" /\ scr.last.found > 0) =>
          scr.last.fetched = scr.last.found
    /\ scr.pc = "done" => scr.calls = scr.months

\* A run that went on after a failed monthly link, and a monthly PDF whose
\* first link failed and whose second link was still fetched.
C19_Witness ==
    /\ scr.pc = "done"
    /\ scr.months = MaxMonthly
    /\ scr.failed_months > 0
    /\ scr.last.found = MaxLinks
    /\ scr.last.failures > 0
    /\ scr.last.fetched = MaxLinks
    /\ scr.last.ret = "True"

\* C20: save_policy's result for a URL that is already stored is not the
\* failure result, and a monthly PDF whose policies are all already stored
\* is not reported as failed by scrape_policy_url.
C20_DuplicateIsSuccess ==
    /\ \A w \in Workers : wret[w].why = "duplicate" => wret[w].value # "False"
    /\ (scr.last.found > 0 /\ scr.last.duplicates = scr.last.found) =>
          scr.last.ret # "False"

\* A token of a text: a maximal run of characters that are not whitespace.
TokenAt(text, i, n) ==
    /\ i >= 1 /\ n >= 1 /\ i + n - 1 <= Len(text)
    /\ \A k \in i..(i + n - 1) : ~IsSpace(text[k])
    /\ (i = 1 \/ IsSpace(text[i - 1]))
    /\ (i + n - 1 = Len(text) \/ IsSpace(text[i + n]))
TokensOf(text) ==
    {SubSeq(text, i, i + n - 1) : <<i, n>> \in
        {p \in (1..Len(text)) \X (1..Len(text)) : TokenAt(text, p[1], p[2])}}

\* The (code, code type) pairs of a returned list, with their positions.
SameCode(codes, i, j) ==
    codes[i].code = codes[j].code /\ codes[i].code_type = codes[j].code_type

\* C21: the list returned by medical-code extraction, by either extractor,
\* has at most one entry per (code, code type) pair.
C21_OneEntryPerCode ==
    fpc \in {"extract_medical_codes", "_extract_medical_codes"} =>
        \A i, j \in 1..Len(fret) : SameCode(fret, i, j) => i = j

\* The shapes of the three kinds of code, as the claim words them.
IsCptToken(t) == Len(t) = 5 /\ \A k \in 1..5 : IsDigit(t[k])
IsHcpcsToken(t) ==
    Len(t) = 5 /\ t[1] \in UpperLetters /\ \A k \in 2..5 : IsDigit(t[k])
IsIcd10Token(t) ==
    /\ Len(t) >= 3 /\ t[1] \in UpperLetters /\ IsDigit(t[2]) /\ IsDigit(t[3])
    /\ Len(t) > 3 => /\ t[4] = "." /\ Len(t) >= 5
                     /\ \A k \in 5..Len(t) : IsDigit(t[k])
CodeReturned(codes, t, code_type) ==
    \E k \in 1..Len(codes) : codes[k].code = t /\ codes[k].code_type = code_type

\* C22: extract_medical_codes returns every standalone token of 5 digits as a
\* CPT code, of a letter A-Z and 4 digits as an HCPCS code, and of a letter
\* A-Z, 2 digits and an optional decimal fraction as an ICD-10 code.
C22_EveryCodeTokenReturned ==
    fpc = "extract_medical_codes" =>
        \A t \in TokensOf(fargs) :
            /\ IsCptToken(t) => CodeReturned(fret, t, "CPT")
            /\ IsHcpcsToken(t) => CodeReturned(fret, t, "HCPCS")
            /\ IsIcd10Token(t) => CodeReturned(fret, t, "ICD-10")


\* The fragments of the comments that are not blank, stripped, in order.
NonBlankFragments(comments) ==
    LET stripped == [k \in 1..Len(Split(comments, ";")) |->
                        Strip(Split(comments, ";")[k])]
    IN SelectSeq(stripped, LAMBDA f : f # <<>>)

\* The change type the claim gives a fragment.
HasWord(f, words) == \E word \in words : Contains(Lower(f), word)
ClaimedChangeType(f) ==
    IF HasWord(f, AdditionWords) THEN "Addition"
    ELSE IF HasWord(f, RemovalWords) THEN "Removal"
    ELSE "Modification"

SlugTitle(url) == Title(UnderscoresToSpaces(FirstPattern(url, UrlPatterns).group))

\* C24: the title of a hyperlink is the first success of: the title derived
\* from the url's policy-number-and-name segment, a table cell of the page,
\* the words near the link's box, the literal 'Unknown Policy'; for a url of
\* the convention it is the slug with underscores turned into spaces,
\* title-cased, whatever the tables and words are.
C24_TitleFromUrlFirst ==
    fpc = "extract_title_near_coordinates" =>
        LET page == fargs.page
            annot == fargs.annot
            words_title == TitleFromWords(page.words, annot)
        IN IF FirstPattern(annot.uri, UrlPatterns).matched
           THEN fret = SlugTitle(annot.uri)
           ELSE IF ~page.raises /\ TitleFromTables(page.tables).present
           THEN fret = TitleFromTables(page.tables).s
           ELSE IF ~page.raises /\ Len(words_title) > MinTitleLen
           THEN fret = words_title
           ELSE fret = UnknownPolicy


\* The worker count the claim gives for a core count, a free-memory value and
\* a CPU value.
ClaimedWorkerCount(cores, memory_gb, cpu_percent) ==
    LET base == IF cores \div 2 < 4 THEN cores \div 2 ELSE 4
        byMemory == IF memory_gb < 2 THEN 1
                    ELSE IF memory_gb < 4 /\ base > 2 THEN 2 ELSE base
        byCpu == IF cpu_percent > 60 THEN byMemory - 1 ELSE byMemory
    IN IF byCpu < 1 THEN 1 ELSE byCpu

\* C25: get_optimal_worker_count returns min(cores // 2, 4), replaced by 1
\* when free memory is below 2 GB or capped at 2 when it is below 4 GB, then
\* reduced by one when CPU is above 60%, and never less than 1; the result is
\* between 1 and 4 and is 1 when no metrics are available.
C25_WorkerCount ==
    fpc = "get_optimal_worker_count" =>
        /\ fret \in 1..4
        /\ ~fargs.metrics.available => fret = 1
        /\ fargs.metrics.available =>
               fret = ClaimedWorkerCount(fargs.cpu_count,
                                         fargs.metrics.memory_available_gb,
                                         fargs.metrics.cpu_percent)

\* Eight or more cores with 3 GB free and CPU over 60%: 4 capped at 2 and then
\* reduced to 1.
C25_Witness ==
    /\ fpc = "get_optimal_worker_count"
    /\ fargs.metrics.available /\ fargs.cpu_count >= 8
    /\ fargs.metrics.memory_available_gb = 3 /\ fargs.metrics.cpu_percent > 60
    /\ fret = 1


\* C26: in a batch run a pause of 1 to 2 seconds takes place between any two
\* successive monthly-page fetches: every fetch of a monthly page but the
\* first comes after 1 to 2 seconds of sleep since the previous page was
\* processed.
C26_PauseBetweenMonthlyFetches ==
    [][(scr.pc = "monthly" /\ scr.calls >= 1 /\ scr'.calls = scr.calls + 1)
          => scr.slept \in 1..2]_vars


\* The last call found the breaker active with more than 60 seconds gone
\* since its activation.
CalledAfterCooldown ==
    /\ mcall.called /\ mcall.active_before
    /\ mcall.at - mcall.prevTrippedAt > 60

\* The last call cleared the breaker it found active (it may have tripped it
\* again at once).
ClearedByLastCall ==
    /\ mcall.called /\ mcall.active_before
    /\ \/ ~circuit_breaker_active
       \/ circuit_breaker_start_time # mcall.prevTrippedAt

\* What a call that cleared the breaker decides from its own sample.
DecidedFromFreshSample ==
    /\ (/\ ~BothOver(mcall.metrics)
        /\ mcall.metrics.cpu_percent <= cpu_threshold
        /\ mcall.metrics.memory_percent <= memory_threshold
        /\ ~ProbeFailsOrAtThreshold(mcall.probe))
          => /\ ~mcall.ret
             /\ ~circuit_breaker_active
             /\ circuit_breaker_start_time = NoTime
    /\ BothOver(mcall.metrics)
          => /\ mcall.ret
             /\ circuit_breaker_active
             /\ circuit_breaker_start_time = mcall.at

\* C27 as stated: the breaker is never cleared before 60 seconds have elapsed
\* since its activation, and the first call made after those 60 seconds clears
\* it and decides from its fresh sample alone.
C27_ClearedByFirstCallAfterCooldown ==
    /\ ClearedByLastCall => mcall.at - mcall.prevTrippedAt >= 60
    /\ CalledAfterCooldown => (ClearedByLastCall /\ DecidedFromFreshSample)

\* C27 amended: the same, for the first call after the 60 seconds that
\* obtains a metrics sample; a call without a sample returns true and leaves
\* the breaker as it is.
C27_ClearedByFirstSampledCall ==
    /\ ClearedByLastCall => mcall.at - mcall.prevTrippedAt >= 60
    /\ (CalledAfterCooldown /\ mcall.metrics.available)
          => (ClearedByLastCall /\ mcall.probed /\ DecidedFromFreshSample)
    /\ (CalledAfterCooldown /\ ~mcall.metrics.available)
          => /\ mcall.ret
             /\ circuit_breaker_active
             /\ circuit_breaker_start_time = mcall.prevTrippedAt

\* A call more than 60 seconds after the activation, with a normal sample and
\* a responsive probe, has cleared the breaker and returned false.
C27_Witness ==
    /\ CalledAfterCooldown /\ mcall.metrics.available
    /\ ~mcall.ret /\ ~circuit_breaker_active
    /\ circuit_breaker_start_time = NoTime


\* The step is an update_progress or complete_task call on this tracker for a
\* task id that start_task was never called with on it (start_task is the
\* only operation that adds an id to active_tasks).
CallForForeignTask(t) ==
    /\ tcall' # tcall
    /\ tcall'.op \in {"update_progress", "complete_task"}
    /\ tcall'.task = t
    /\ t \notin DOMAIN active_tasks

\* C28: update_progress and complete_task for a task id that was not started
\* through the same tracker instance return None and leave the progress store
\* unchanged, also when another worker's tracker has stored a live record for
\* that id.
C28_ForeignTaskIsIgnored ==
    [][\A t \in Tasks :
          CallForForeignTask(t) =>
              /\ ~tcall'.found /\ ~tcall'.raised
              /\ tcall'.ret = NoProgress
              /\ redis' = redis
              /\ active_tasks' = active_tasks]_vars

\* An update_progress call returned None for a task that another worker's
\* tracker started and whose record is live in the store.
C28_Witness ==
    /\ tcall.op = "update_progress" /\ ~tcall.found
    /\ tcall.task \in DOMAIN other_tasks
    /\ tcall.task \in DOMAIN redis
    /\ tcall.task \notin DOMAIN active_tasks
    /\ tcall.ret = NoProgress


\* The step is an update_progress or complete_task call for a task this
\* tracker has started, made when the store holds no record of the task.
CallAfterRecordGone(t) ==
    /\ tcall' # tcall
    /\ tcall'.op \in {"update_progress", "complete_task"}
    /\ tcall'.task = t
    /\ t \in DOMAIN active_tasks
    /\ t \notin DOMAIN redis

OutsideAnyCall == \A t \in Threads : thr[t].pc = "idle"
C29_BreakerConsistentUnderThreads ==
    /\ \A t \in Threads : thr[t].pc # "TypeError"
    /\ OutsideAnyCall =>
          (circuit_breaker_active <=> circuit_breaker_start_time # NoTime)

====
